---- MODULE Spec2Model ----
(***************************************************************************)
(* Globe page of the language-similarity viewer: the similarity-matrix     *)
(* loader (parseCSV, useSimilarityData), the point/arc builder of          *)
(* GlobeVisualization, the similarity ranking of LanguageSimilarityPanel   *)
(* and the selection / filter / popup handlers of GlobePage.               *)
(*                                                                         *)
(* Numbers.  Distances are fixed-point integers in thousandths (0.82 is    *)
(* 820), wrapped in a value record so that the three outcomes a JavaScript *)
(* lookup can have stay apart: a number, NaN, or undefined.                *)
(* Text.  A text is a sequence of one-character strings; Str joins it into *)
(* a TLA+ string, which is what object keys (language names) are.          *)
(* Left out of the records: latitude/longitude, the Japanese name, the     *)
(* country and the colour strings, which no handler reads back.            *)
(***************************************************************************)
EXTENDS Integers, Sequences, FiniteSets, TLC

VARIABLES
    location,          \* the router's current path ("/" shows GlobePage)
    loading,           \* useSimilarityData: the fetch is still in flight
    csvText,           \* the text of the head_direction_distance_cosine_merged.csv response
    similarityData,    \* similarityData.headDirectionMerged
    selectedNodeCode,  \* GlobePage state
    distanceFilter,    \* GlobePage state
    popupLanguage,     \* GlobePage state
    pointsData,        \* the memoised point list handed to <Globe>
    arcsData,          \* the memoised arc list handed to <Globe>
    allNodes,          \* the node table the components are built with (LANGUAGE_LOCATIONS)
    headDirectionRates,\* useHeadDirectionRates: rates
    ratesLoading,      \* useHeadDirectionRates: the fetch is still in flight
    arcDistance,       \* the distance of the arc being styled
    arcCategory,       \* its getDistanceCategory
    arcOpacity,        \* its getDistanceOpacity
    arcColor,          \* its getDistanceColor
    selectedLang1,     \* ComparisonPage state
    selectedLang2,     \* ComparisonPage state
    zoom,              \* ComparisonPage state
    languageDataCache, \* useLazyLanguageData: the codes languageDataCache has data for
    phraseDataCache,   \* useLazyLanguageData: the codes phraseDataCache has data for
    failedLanguagesCache, \* useLazyLanguageData: failedLanguagesCache
    loadingLanguages,  \* useLazyLanguageData: loadingLanguages as of the last render
    inFlight,          \* per code, the loadLanguage calls waiting for their responses
    fetched,           \* per code, the loadLanguage calls that have issued their fetch
    effectPending      \* the load effect of ComparisonPage is due to run

vars == <<location, loading, csvText, similarityData, selectedNodeCode,
          distanceFilter, popupLanguage, pointsData, arcsData,
          allNodes, headDirectionRates, ratesLoading,
          arcDistance, arcCategory, arcOpacity, arcColor,
          selectedLang1, selectedLang2, zoom, languageDataCache, phraseDataCache,
          failedLanguagesCache, loadingLanguages, inFlight, fetched, effectPending>>

\* the variables of the popup's rate table and of the arc style
rateVars == <<headDirectionRates, ratesLoading>>
styleVars == <<arcDistance, arcCategory, arcOpacity, arcColor>>
\* the variables of the comparison page and of its language loader
loaderVars == <<languageDataCache, phraseDataCache, failedLanguagesCache, loadingLanguages,
                inFlight, fetched, effectPending>>
compareVars == <<selectedLang1, selectedLang2, zoom, loaderVars>>

-----------------------------------------------------------------------------
(* JavaScript values *)

null == "null"
undefined == "undefined"

\* if (x) on a string | null | undefined
Truthy(x) == x # null /\ x # undefined /\ x # ""

NaN == [tag |-> "NaN", v |-> 0]
Num(n) == [tag |-> "number", v |-> n]
Absent == [tag |-> "undefined", v |-> 0]

IsNumber(x) == x.tag = "number"

-----------------------------------------------------------------------------
(* JavaScript arithmetic: IEEE 754 binary64, round to nearest, ties to     *)
(* even.  A finite double is sign * mant * 2^exp with mant a natural of    *)
(* exactly 53 bits, or zero (mant empty).  A natural is a sequence of      *)
(* limbs in base 2^15, lowest limb first, without high zero limbs.  The    *)
(* values of the model stay far from the subnormal and overflow ranges.    *)

LimbBits == 15
Base == 32768
MantBits == 53

Rest(a) == IF a = <<>> THEN <<>> ELSE Tail(a)

Limb(a) == IF a = <<>> THEN 0 ELSE Head(a)

RECURSIVE StripZeros(_)
StripZeros(a) ==
    IF a = <<>> THEN <<>>
    ELSE IF a[Len(a)] = 0 THEN StripZeros(SubSeq(a, 1, Len(a) - 1))
    ELSE a

RECURSIVE NatOf(_)
NatOf(n) == IF n = 0 THEN <<>> ELSE <<n % Base>> \o NatOf(n \div Base)

RECURSIVE IntOf(_)
IntOf(a) == IF a = <<>> THEN 0 ELSE Head(a) + Base * IntOf(Tail(a))

RECURSIVE AddCarry(_, _, _)
AddCarry(a, b, c) ==
    IF a = <<>> /\ b = <<>> THEN (IF c = 0 THEN <<>> ELSE <<c>>)
    ELSE LET x == Limb(a) + Limb(b) + c
         IN <<x % Base>> \o AddCarry(Rest(a), Rest(b), x \div Base)

AddNat(a, b) == AddCarry(a, b, 0)

\* a - b for a >= b
RECURSIVE SubBorrow(_, _, _)
SubBorrow(a, b, c) ==
    IF a = <<>> THEN <<>>
    ELSE LET x == Head(a) - Limb(b) - c
         IN <<(x + Base) % Base>> \o SubBorrow(Tail(a), Rest(b), IF x < 0 THEN 1 ELSE 0)

SubNat(a, b) == StripZeros(SubBorrow(a, b, 0))

\* a * m for 0 <= m <= Base
RECURSIVE MulCarry(_, _, _)
MulCarry(a, m, c) ==
    IF a = <<>> THEN (IF c = 0 THEN <<>> ELSE <<c>>)
    ELSE LET x == Head(a) * m + c
         IN <<x % Base>> \o MulCarry(Tail(a), m, x \div Base)

MulSmall(a, m) == StripZeros(MulCarry(a, m, 0))

RECURSIVE Zeros(_)
Zeros(k) == IF k = 0 THEN <<>> ELSE <<0>> \o Zeros(k - 1)

RECURSIVE MulNat(_, _)
MulNat(a, b) ==
    IF a = <<>> \/ b = <<>> THEN <<>>
    ELSE LET high == MulNat(a, Tail(b))
         IN AddNat(MulSmall(a, Head(b)), IF high = <<>> THEN <<>> ELSE <<0>> \o high)

\* quotient and remainder of a by m, 0 < m <= Base
RECURSIVE DivRem(_, _)
DivRem(a, m) ==
    IF a = <<>> THEN [q |-> <<>>, r |-> 0]
    ELSE LET high == DivRem(Tail(a), m)
             x == high.r * Base + Head(a)
         IN [q |-> <<x \div m>> \o high.q, r |-> x % m]

RECURSIVE CmpTop(_, _, _)
CmpTop(a, b, k) ==
    IF k = 0 THEN 0
    ELSE IF a[k] # b[k] THEN (IF a[k] < b[k] THEN -1 ELSE 1)
    ELSE CmpTop(a, b, k - 1)

\* -1, 0 or 1 as a is less than, equal to or greater than b
CmpNat(a, b) ==
    IF Len(a) # Len(b) THEN (IF Len(a) < Len(b) THEN -1 ELSE 1)
    ELSE CmpTop(a, b, Len(a))

RECURSIVE Pow2(_)
Pow2(k) == IF k = 0 THEN 1 ELSE 2 * Pow2(k - 1)

ShiftLeft(a, s) ==
    IF a = <<>> THEN <<>>
    ELSE Zeros(s \div LimbBits) \o MulSmall(a, Pow2(s % LimbBits))

ShiftRight(a, s) ==
    IF s \div LimbBits >= Len(a) THEN <<>>
    ELSE StripZeros(DivRem(SubSeq(a, s \div LimbBits + 1, Len(a)), Pow2(s % LimbBits)).q)

RECURSIVE BitsOf(_)
BitsOf(n) == IF n = 0 THEN 0 ELSE 1 + BitsOf(n \div 2)

BitLength(a) == IF a = <<>> THEN 0 ELSE LimbBits * (Len(a) - 1) + BitsOf(a[Len(a)])

IsOdd(a) == a # <<>> /\ a[1] % 2 = 1

Double(sign, mant, exp) == [tag |-> "double", sign |-> sign, mant |-> mant, exp |-> exp]

Zero == Double(1, <<>>, 0)

IsZero(x) == x.mant = <<>>

\* the one element of a set of one value: Only({e(a) : a \in {x}}) is e(x)
\* with x evaluated once
Only(values) == CHOOSE value \in values : TRUE

\* the double nearest to sign * n * 2^e, n not 0 and longer than MantBits
RoundDown(sign, n, e) ==
    LET s == BitLength(n) - MantBits
    IN Only({ LET r == SubNat(n, ShiftLeft(q, s))
                  c == CmpNat(r, ShiftLeft(<<1>>, s - 1))
                  up == c > 0 \/ (c = 0 /\ IsOdd(q))
              IN Only({ IF BitLength(q2) > MantBits
                        THEN Double(sign, ShiftRight(q2, 1), e + s + 1)
                        ELSE Double(sign, q2, e + s) :
                        q2 \in {IF up THEN AddNat(q, <<1>>) ELSE q} }) :
              q \in {ShiftRight(n, s)} })

\* the double nearest to sign * m * 2^e
RoundToDouble(sign, m, e) ==
    Only({ IF n = <<>> THEN Zero
           ELSE IF BitLength(n) <= MantBits
           THEN Double(sign, ShiftLeft(n, MantBits - BitLength(n)), e - (MantBits - BitLength(n)))
           ELSE RoundDown(sign, n, e) :
           n \in {m} })

\* an integer literal
Integer(n) == RoundToDouble(IF n < 0 THEN -1 ELSE 1, NatOf(IF n < 0 THEN -n ELSE n), 0)

\* the double a decimal literal or parseFloat gives for n / den, 0 < den <= Base:
\* the quotient is taken to 75 more bits and the rest kept as a sticky bit
Decimal(n, den) ==
    IF n = 0 THEN Zero
    ELSE Only({ RoundToDouble(IF n < 0 THEN -1 ELSE 1,
                              AddNat(ShiftLeft(StripZeros(d.q), 1),
                                     IF d.r = 0 THEN <<>> ELSE <<1>>),
                              0 - 5 * LimbBits - 1) :
                d \in {DivRem(ShiftLeft(NatOf(IF n < 0 THEN -n ELSE n), 5 * LimbBits), den)} })

Negate(x) == IF IsZero(x) THEN x ELSE Double(0 - x.sign, x.mant, x.exp)

\* a + b for doubles that are not 0
PlusNonZero(a, b) ==
    LET e == IF a.exp < b.exp THEN a.exp ELSE b.exp
    IN Only({ IF a.sign = b.sign THEN RoundToDouble(a.sign, AddNat(ma, mb), e)
              ELSE IF CmpNat(ma, mb) = 0 THEN Zero
              ELSE IF CmpNat(ma, mb) > 0 THEN RoundToDouble(a.sign, SubNat(ma, mb), e)
              ELSE RoundToDouble(b.sign, SubNat(mb, ma), e) :
              ma \in {ShiftLeft(a.mant, a.exp - e)}, mb \in {ShiftLeft(b.mant, b.exp - e)} })

\* x + y
Plus(x, y) ==
    Only({ IF IsZero(a) THEN b ELSE IF IsZero(b) THEN a ELSE PlusNonZero(a, b) :
           a \in {x}, b \in {y} })

\* x - y
Minus(x, y) == Plus(x, Negate(y))

\* x * y
Times(x, y) ==
    Only({ IF IsZero(a) \/ IsZero(b) THEN Zero
           ELSE RoundToDouble(a.sign * b.sign, MulNat(a.mant, b.mant), a.exp + b.exp) :
           a \in {x}, b \in {y} })

\* x < y
LessThan(x, y) == \E d \in {Minus(x, y)} : ~IsZero(d) /\ d.sign = -1

MathMax(x, y) == Only({IF LessThan(a, b) THEN b ELSE a : a \in {x}, b \in {y}})

MathMin(x, y) == Only({IF LessThan(b, a) THEN b ELSE a : a \in {x}, b \in {y}})

MathAbs(x) == Double(1, x.mant, x.exp)

\* Math.round(x) as an integer: the nearest integer, a tie going up
RoundNearest(a) ==
    IF IsZero(a) THEN 0
    ELSE IF a.exp >= 0 THEN a.sign * IntOf(ShiftLeft(a.mant, a.exp))
    ELSE LET s == 0 - a.exp
         IN Only({ LET r == SubNat(a.mant, ShiftLeft(q, s))
                       c == CmpNat(r, ShiftLeft(<<1>>, s - 1))
                   IN IF a.sign = 1 THEN IntOf(q) + (IF c >= 0 THEN 1 ELSE 0)
                      ELSE 0 - (IntOf(q) + (IF c > 0 THEN 1 ELSE 0)) :
                   q \in {ShiftRight(a.mant, s)} })

MathRound(x) == Only({RoundNearest(a) : a \in {x}})

-----------------------------------------------------------------------------
(* Sequence helpers *)

RECURSIVE Str(_)
Str(chars) == IF chars = <<>> THEN "" ELSE Head(chars) \o Str(Tail(chars))

-----------------------------------------------------------------------------
(* data/languageLocations.ts: the node registry.  The model keeps six of   *)
(* the 41 rows, in the order of the source: three primaries, two           *)
(* secondaries of one primary and one secondary of another.                *)

Node(code, name, isPrimary, primaryCode) ==
    [code |-> code, name |-> name, isPrimary |-> isPrimary, primaryCode |-> primaryCode]

LANGUAGE_LOCATIONS ==
    << Node("en", "English", TRUE, undefined),
       Node("ja", "Japanese", TRUE, undefined),
       Node("pt", "Portuguese", TRUE, undefined),
       Node("en-us", "English", FALSE, "en"),
       Node("en-au", "English", FALSE, "en"),
       Node("pt-br", "Portuguese", FALSE, "pt") >>

\* The 41 rows of the source, in its order.
ALL_LANGUAGE_LOCATIONS ==
    << Node("ar", "Arabic", TRUE, undefined),
       Node("zh", "Chinese", TRUE, undefined),
       Node("cs", "Czech", TRUE, undefined),
       Node("en", "English", TRUE, undefined),
       Node("fi", "Finnish", TRUE, undefined),
       Node("fr", "French", TRUE, undefined),
       Node("gl", "Galician", TRUE, undefined),
       Node("de", "German", TRUE, undefined),
       Node("hi", "Hindi", TRUE, undefined),
       Node("is", "Icelandic", TRUE, undefined),
       Node("id", "Indonesian", TRUE, undefined),
       Node("it", "Italian", TRUE, undefined),
       Node("ja", "Japanese", TRUE, undefined),
       Node("ko", "Korean", TRUE, undefined),
       Node("pt", "Portuguese", TRUE, undefined),
       Node("ru", "Russian", TRUE, undefined),
       Node("es", "Spanish", TRUE, undefined),
       Node("sv", "Swedish", TRUE, undefined),
       Node("th", "Thai", TRUE, undefined),
       Node("tr", "Turkish", TRUE, undefined),
       Node("af", "Afrikaans", TRUE, undefined),
       Node("fo", "Faroese", TRUE, undefined),
       Node("he", "Hebrew", TRUE, undefined),
       Node("ga", "Irish", TRUE, undefined),
       Node("kpv", "Komi_Zyrian", TRUE, undefined),
       Node("yrk", "Nenets", TRUE, undefined),
       Node("no", "NO", TRUE, undefined),
       Node("sa", "Sanskrit", TRUE, undefined),
       Node("tl", "Tagalog", TRUE, undefined),
       Node("ta", "Tamil", TRUE, undefined),
       Node("uz", "Uzbek", TRUE, undefined),
       Node("vi", "Vietnamese", TRUE, undefined),
       Node("sah", "Yakut", TRUE, undefined),
       Node("en-us", "English", FALSE, "en"),
       Node("en-au", "English", FALSE, "en"),
       Node("pt-br", "Portuguese", FALSE, "pt"),
       Node("es-mx", "Spanish", FALSE, "es"),
       Node("es-ar", "Spanish", FALSE, "es"),
       Node("fr-ca", "French", FALSE, "fr"),
       Node("ar-eg", "Arabic", FALSE, "ar"),
       Node("zh-tw", "Chinese", FALSE, "zh") >>

NodeIndexes == 1..Len(LANGUAGE_LOCATIONS)

NodeCodes == {LANGUAGE_LOCATIONS[i].code : i \in NodeIndexes}

\* A faulty FindByCode, for comparison: the rows are matched on their primaryCode.
FindByPrimaryCode(code) ==
    SelectSeq(allNodes, LAMBDA l : l.primaryCode = code)

\* LANGUAGE_LOCATIONS.find(l => l.code === code): the matching rows, first one first
FindByCode(code) ==
    SelectSeq(allNodes, LAMBDA l : l.code = code)

\* getLanguageByName: find(lang => lang.name === name && lang.isPrimary)
getLanguageByName(name) ==
    SelectSeq(allNodes, LAMBDA lang : lang.name = name /\ lang.isPrimary)

\* node.isPrimary ? node.name : LANGUAGE_LOCATIONS.find(l => l.code === node.primaryCode)?.name
LangName(node) ==
    IF node.isPrimary THEN node.name
    ELSE LET found == FindByCode(node.primaryCode)
         IN IF found = <<>> THEN undefined ELSE found[1].name

-----------------------------------------------------------------------------
(* hooks/useLanguageData.ts: parseCSV *)

Whitespace == {" ", "\n", "\t", "\r"}
Digits == {"0", "1", "2", "3", "4", "5", "6", "7", "8", "9"}

DigitValue(c) ==
    CASE c = "0" -> 0 [] c = "1" -> 1 [] c = "2" -> 2 [] c = "3" -> 3 [] c = "4" -> 4
      [] c = "5" -> 5 [] c = "6" -> 6 [] c = "7" -> 7 [] c = "8" -> 8 [] c = "9" -> 9

\* String.prototype.trim
RECURSIVE TrimStart(_)
TrimStart(s) ==
    IF s # <<>> /\ Head(s) \in Whitespace THEN TrimStart(Tail(s)) ELSE s

RECURSIVE TrimEnd(_)
TrimEnd(s) ==
    IF s # <<>> /\ s[Len(s)] \in Whitespace THEN TrimEnd(SubSeq(s, 1, Len(s) - 1)) ELSE s

Trim(s) == TrimEnd(TrimStart(s))

\* String.prototype.split(sep) for a one-character separator: always at
\* least one piece; an empty text splits into one empty piece.
RECURSIVE Split(_, _)
Split(s, sep) ==
    LET hits == {i \in 1..Len(s) : s[i] = sep}
    IN IF hits = {} THEN <<s>>
       ELSE LET i == CHOOSE k \in hits : \A m \in hits : k <= m
            IN <<SubSeq(s, 1, i - 1)>> \o Split(SubSeq(s, i + 1, Len(s)), sep)

\* The longest prefix of s made of digits.
RECURSIVE DigitPrefix(_)
DigitPrefix(s) ==
    IF s # <<>> /\ Head(s) \in Digits THEN <<Head(s)>> \o DigitPrefix(Tail(s)) ELSE <<>>

RECURSIVE DigitsValue(_)
DigitsValue(ds) ==
    IF ds = <<>> THEN 0 ELSE 10 * DigitsValue(SubSeq(ds, 1, Len(ds) - 1)) + DigitValue(ds[Len(ds)])

\* The first three fraction digits as thousandths.
Thousandths(ds) ==
    LET d(i) == IF i <= Len(ds) THEN DigitValue(ds[i]) ELSE 0
    IN 100 * d(1) + 10 * d(2) + d(3)

\* parseFloat: leading white space is skipped, then the longest prefix that
\* is a decimal literal (sign, digits, fraction) is the value; NaN when
\* there is none.  Anything after the prefix is ignored.  Exponents and
\* "Infinity" are not modelled (no input of the model has them).
parseFloat(text) ==
    LET s == TrimStart(text)
        signed == s # <<>> /\ Head(s) \in {"-", "+"}
        body == IF signed THEN Tail(s) ELSE s
        int == DigitPrefix(body)
        rest == SubSeq(body, Len(int) + 1, Len(body))
        frac == IF rest # <<>> /\ Head(rest) = "." THEN DigitPrefix(Tail(rest)) ELSE <<>>
        magnitude == 1000 * DigitsValue(int) + Thousandths(frac)
    IN IF int = <<>> /\ frac = <<>> THEN NaN
       ELSE IF signed /\ Head(s) = "-" THEN Num(0 - magnitude) ELSE Num(magnitude)

\* parseCSV.  matrix[rowLang] = {} starts every row afresh, so of two lines
\* with the same first cell the later one stays; a cell beyond the header
\* row is stored under the key "undefined".
parseCSV(text) ==
    LET lines == Split(Trim(text), "\n")
        headerCells == Split(lines[1], ",")
        headers == SubSeq(headerCells, 2, Len(headerCells))
        values(i) == Split(lines[i], ",")
        rowLang(i) == Str(values(i)[1])
        colLang(j) == IF j - 1 <= Len(headers) THEN Str(headers[j - 1]) ELSE undefined
        rowLines == 2..Len(lines)
        lastLine(r) == CHOOSE i \in rowLines :
                          /\ rowLang(i) = r
                          /\ \A k \in rowLines : rowLang(k) = r => k <= i
        row(i) == LET vals == values(i)
                      cols == 2..Len(vals)
                      lastCol(c) == CHOOSE j \in cols :
                                       /\ colLang(j) = c
                                       /\ \A k \in cols : colLang(k) = c => k <= j
                  IN [c \in {colLang(j) : j \in cols} |-> parseFloat(vals[lastCol(c)])]
    IN [r \in {rowLang(i) : i \in rowLines} |-> row(lastLine(r))]

\* A faulty Lookup, for comparison: a missing entry reads as 0 (similarityData[a]?.[b] ?? 0).
LookupOrZero(sim, a, b) ==
    IF a \notin DOMAIN sim THEN Num(0)
    ELSE IF b \notin DOMAIN sim[a] THEN Num(0)
    ELSE sim[a][b]

\* similarityData[a]?.[b]
Lookup(sim, a, b) ==
    IF a \notin DOMAIN sim THEN Absent
    ELSE IF b \notin DOMAIN sim[a] THEN Absent
    ELSE sim[a][b]

-----------------------------------------------------------------------------
(* components/Globe/Globe.tsx: the pure helpers *)

\* A faulty Less, for comparison: distance <= bound.
LessOrEqual(distance, bound) == distance.tag = "number" /\ distance.v <= bound

\* distance < bound on a JavaScript number: false when distance is NaN
Less(distance, bound) == distance.tag = "number" /\ distance.v < bound

\* getDistanceCategory, thresholds in thousandths
getDistanceCategory(distance) ==
    IF Less(distance, 50) THEN "veryClose"
    ELSE IF Less(distance, 100) THEN "close"
    ELSE IF Less(distance, 300) THEN "slightlyClose"
    ELSE IF Less(distance, 500) THEN "slightlyFar"
    ELSE IF Less(distance, 700) THEN "far"
    ELSE "veryFar"

Categories == {"veryClose", "close", "slightlyClose", "slightlyFar", "far", "veryFar"}

\* the double of a distance kept in thousandths
ToDouble(distance) == Decimal(distance.v, 1000)

\* getDistanceOpacity: Math.max(0.2, 0.8 - distance * 1.2); NaN for NaN
getDistanceOpacity(distance) ==
    IF ~IsNumber(distance) THEN NaN
    ELSE MathMax(Decimal(2, 10),
                 Minus(Decimal(8, 10), Times(ToDouble(distance), Decimal(12, 10))))

\* A faulty Clamp, for comparison: the value is not clamped.
ClampNot(x) == x

\* Math.min(Math.max(x, 0), 1)
Clamp(x) == MathMin(MathMax(x, Zero), Integer(1))

\* Math.round(from + u * (to - from))
Channel(from, u, to) == MathRound(Plus(Integer(from), Times(u, Integer(to - from))))

Rgba(r, g, b, a) == [r |-> r, g |-> g, b |-> b, a |-> a]

\* getDistanceColor: the text `rgba(r, g, b, opacity)` as its four parts;
\* with a NaN distance every comparison fails and each channel is NaN
getDistanceColor(distance, opacity) ==
    IF ~IsNumber(distance) THEN Rgba(NaN, NaN, NaN, opacity)
    ELSE Only({
           IF LessThan(t, Decimal(25, 100))
           THEN Only({ Rgba(Channel(59, u, 34), Channel(130, u, 197), Channel(246, u, 94), opacity) :
                       u \in {Times(t, Integer(4))} })
           ELSE IF LessThan(t, Decimal(5, 10))
           THEN Only({ Rgba(Channel(34, tt, 74), Channel(197, tt, 222), Channel(94, tt, 128), opacity) :
                       tt \in {Times(Minus(t, Decimal(25, 100)), Integer(4))} })
           ELSE IF LessThan(t, Decimal(75, 100))
           THEN Only({ Rgba(Channel(74, tt, 250), Channel(222, tt, 204), Channel(128, tt, 21), opacity) :
                       tt \in {Times(Minus(t, Decimal(5, 10)), Integer(4))} })
           ELSE Only({ Rgba(Channel(250, tt, 239), Channel(204, tt, 68), Channel(21, tt, 68), opacity) :
                       tt \in {Times(Minus(t, Decimal(75, 100)), Integer(4))} }) :
           t \in {Clamp(Times(ToDouble(distance), Integer(2)))} })

\* A faulty SameLanguage, for comparison: two secondaries of one primary are not recognised.
SameLanguageNoSiblings(node1, node2) ==
    \/ node1.primaryCode = node2.code
    \/ node2.primaryCode = node1.code

\* The condition under which a pair is a same-language pair (lines 184-188
\* and again 237-241).
SameLanguage(node1, node2) ==
    \/ node1.primaryCode = node2.code
    \/ node2.primaryCode = node1.code
    \/ (Truthy(node1.primaryCode) /\ node1.primaryCode = node2.primaryCode)

\* pointsData (useMemo body); sizes in thousandths (0.5, 0.35)
PointOf(lang, selected) ==
    [code |-> lang.code,
     name |-> lang.name,
     size |-> IF lang.isPrimary THEN 500 ELSE 350,
     color |-> IF selected = lang.code THEN "#22c55e"
               ELSE IF lang.isPrimary THEN "#60a5fa" ELSE "#94a3b8",
     isPrimary |-> lang.isPrimary]

BuildPoints(selected) ==
    [i \in 1..Len(allNodes) |-> PointOf(allNodes[i], selected)]

\* A faulty pointRadius, for comparison: the selection is not looked at.
pointRadiusSizeOnly(d, selected) == d.size

\* pointRadius of <Globe>: d.code === selectedNodeCode ? 0.7 : d.size
pointRadius(d, selected) == IF d.code = selected THEN 700 ELSE d.size

\* First loop of arcsData: the body for one pair, as the arcs it pushes.
SameArc(node1, node2) ==
    IF SameLanguage(node1, node2)
    THEN << [lang1 |-> node1.name, lang2 |-> node2.name, distance |-> Num(0),
             category |-> "same", clickable |-> FALSE,
             node1Code |-> node1.code, node2Code |-> node2.code] >>
    ELSE <<>>

\* A faulty SkippedBySelection, for comparison: only the first node of the pair is compared.
SkippedBySelectionFirstOnly(node1, node2, target) ==
    Truthy(target) /\ node1.code # target

\* Selection mode: a pair without the selected node is skipped (lines 230-234).
SkippedBySelection(node1, node2, target) ==
    Truthy(target) /\ node1.code # target /\ node2.code # target

\* A faulty SkippedByFilter, for comparison: the filter is never applied.
SkippedByFilterNever(category, filter, target) == FALSE

\* !targetNodeCode && !distanceFilter[category] (line 260)
SkippedByFilter(category, filter, target) ==
    ~Truthy(target) /\ ~filter[category]

\* A faulty SimilarityArc, for comparison: same-language pairs are not skipped.
SimilarityArcSameNotSkipped(node1, node2, sim, filter, target) ==
    IF SkippedBySelection(node1, node2, target) THEN <<>>
    ELSE LET lang1Name == LangName(node1)
             lang2Name == LangName(node2)
         IN IF ~Truthy(lang1Name) \/ ~Truthy(lang2Name) THEN <<>>
            ELSE LET distance == Lookup(sim, lang1Name, lang2Name)
                 IN IF distance = Absent THEN <<>>
                    ELSE LET category == getDistanceCategory(distance)
                         IN IF SkippedByFilter(category, filter, target) THEN <<>>
                            ELSE << [lang1 |-> node1.name, lang2 |-> node2.name,
                                     distance |-> distance, category |-> category,
                                     clickable |-> TRUE,
                                     node1Code |-> node1.code, node2Code |-> node2.code] >>

\* Second loop of arcsData: the body for one pair, as the arcs it pushes.
SimilarityArc(node1, node2, sim, filter, target) ==
    IF SkippedBySelection(node1, node2, target) THEN <<>>
    ELSE IF SameLanguage(node1, node2) THEN <<>>
    ELSE LET lang1Name == LangName(node1)
             lang2Name == LangName(node2)
         IN IF ~Truthy(lang1Name) \/ ~Truthy(lang2Name) THEN <<>>
            ELSE LET distance == Lookup(sim, lang1Name, lang2Name)
                 IN IF distance = Absent THEN <<>>
                    ELSE LET category == getDistanceCategory(distance)
                         IN IF SkippedByFilter(category, filter, target) THEN <<>>
                            ELSE << [lang1 |-> node1.name, lang2 |-> node2.name,
                                     distance |-> distance, category |-> category,
                                     clickable |-> TRUE,
                                     node1Code |-> node1.code, node2Code |-> node2.code] >>

\* First loop, inner for (j = i + 1 ..) from j on: the arcs pushed for node i
RECURSIVE SameArcsOfRow(_, _)
SameArcsOfRow(i, j) ==
    IF j > Len(allNodes) THEN <<>>
    ELSE SameArc(allNodes[i], allNodes[j]) \o SameArcsOfRow(i, j + 1)

\* First loop, outer for (i = 0 ..) from i on
RECURSIVE SameArcs(_)
SameArcs(i) ==
    IF i > Len(allNodes) THEN <<>>
    ELSE SameArcsOfRow(i, i + 1) \o SameArcs(i + 1)

\* Second loop, inner for (j = i + 1 ..) from j on
RECURSIVE SimilarityArcsOfRow(_, _, _, _, _)
SimilarityArcsOfRow(i, j, sim, filter, target) ==
    IF j > Len(allNodes) THEN <<>>
    ELSE SimilarityArc(allNodes[i], allNodes[j], sim, filter, target)
         \o SimilarityArcsOfRow(i, j + 1, sim, filter, target)

\* Second loop, outer for (i = 0 ..) from i on
RECURSIVE SimilarityArcs(_, _, _, _)
SimilarityArcs(i, sim, filter, target) ==
    IF i > Len(allNodes) THEN <<>>
    ELSE SimilarityArcsOfRow(i, i + 1, sim, filter, target)
         \o SimilarityArcs(i + 1, sim, filter, target)

\* arcsData (useMemo body): same-language arcs first, then similarity arcs
BuildArcs(sim, filter, selected) ==
    SameArcs(1) \o SimilarityArcs(1, sim, filter, selected)

-----------------------------------------------------------------------------
(* components/Globe/LanguageSimilarityPanel.tsx: sortedSimilarities *)

\* 1 - distance
OneMinus(distance) ==
    IF IsNumber(distance) THEN Num(1000 - distance.v) ELSE NaN

\* The body of the for loop for one node, as the items it pushes.
SimilarityItem(node, selectedNode, selectedLangName, sim) ==
    IF node.code = selectedNode.code THEN <<>>
    ELSE IF node.name = selectedNode.name THEN <<>>
    ELSE IF node.primaryCode = selectedNode.code THEN <<>>
    ELSE IF Truthy(selectedNode.primaryCode) /\ node.code = selectedNode.primaryCode THEN <<>>
    ELSE IF Truthy(selectedNode.primaryCode) /\ node.primaryCode = selectedNode.primaryCode THEN <<>>
    ELSE LET nodeLangName == LangName(node)
         IN IF ~Truthy(nodeLangName) THEN <<>>
            ELSE LET distance == Lookup(sim, selectedLangName, nodeLangName)
                 IN IF distance = Absent THEN <<>>
                    ELSE << [code |-> node.code, name |-> node.name,
                             similarity |-> OneMinus(distance), distance |-> distance] >>

RECURSIVE SimilarityItems(_, _, _, _)
SimilarityItems(nodes, selectedNode, selectedLangName, sim) ==
    IF nodes = <<>> THEN <<>>
    ELSE SimilarityItem(Head(nodes), selectedNode, selectedLangName, sim)
         \o SimilarityItems(Tail(nodes), selectedNode, selectedLangName, sim)

\* items before the sort: [] when the selected node or its language row is missing
UnsortedSimilarities(selected, sim) ==
    LET found == FindByCode(selected)
    IN IF found = <<>> THEN <<>>
       ELSE LET selectedNode == found[1]
                selectedLangName == LangName(selectedNode)
            IN IF ~Truthy(selectedLangName) \/ selectedLangName \notin DOMAIN sim THEN <<>>
               ELSE SimilarityItems(allNodes, selectedNode, selectedLangName, sim)

\* One step of a stable sort by (a, b) => a.distance - b.distance: item goes
\* behind every element that is not greater than it.
InsertByDistance(sorted, item) ==
    LET k == Cardinality({i \in 1..Len(sorted) : sorted[i].distance.v <= item.distance.v})
    IN SubSeq(sorted, 1, k) \o <<item>> \o SubSeq(sorted, k + 1, Len(sorted))

RECURSIVE SortByDistance(_)
SortByDistance(items) ==
    IF items = <<>> THEN <<>>
    ELSE InsertByDistance(SortByDistance(SubSeq(items, 1, Len(items) - 1)), items[Len(items)])

\* items.sort((a, b) => a.distance - b.distance), as the set of lists the
\* call may return.  Array.prototype.sort is stable, so numeric distances
\* give one list.  With a NaN distance the comparator returns NaN, it is not
\* a consistent comparator, and the order of the result is left to the
\* engine: every permutation of the items is a possible result.
SortOutcomes(items) ==
    IF \A i \in 1..Len(items) : IsNumber(items[i].distance)
    THEN {SortByDistance(items)}
    ELSE {[i \in 1..Len(items) |-> items[p[i]]] : p \in Permutations(1..Len(items))}

\* sortedSimilarities (useMemo body): the lists the panel may show
sortedSimilarities(selected, sim) == SortOutcomes(UnsortedSimilarities(selected, sim))

-----------------------------------------------------------------------------
(* components/LanguagePopup.tsx: the word-order summary and the similar    *)
(* languages.  The labels are the English ones of the source ('Unknown'    *)
(* and 'Mixed' are its tendencyEn, 'Head-Initial' and 'Head-Final' its     *)
(* tendency); a language is named by its name where the source shows its   *)
(* nameJa.                                                                 *)

\* a cell of the rate table that was empty
Null == [tag |-> "null", v |-> 0]

verbObjKey == "VERBAL,NOMINAL,CORE_ARG"

\* A faulty NoRate, for comparison: only null is tested.
NoRateNullOnly(rate) == rate = Null

\* rate === null || rate === undefined
NoRate(rate) == rate = Null \/ rate = Absent

\* A faulty Greater, for comparison: rate >= bound.
GreaterOrEqual(rate, bound) == IsNumber(rate) /\ rate.v >= bound

\* rate > bound (false for NaN)
Greater(rate, bound) == IsNumber(rate) /\ rate.v > bound

Tendency(tendency, color) == [tendency |-> tendency, color |-> color]

getWordOrderTendency(languageName, rates) ==
    LET rate == Lookup(rates, verbObjKey, languageName)
    IN IF NoRate(rate) THEN Tendency("Unknown", "#64748b")
       ELSE IF Greater(rate, 700) THEN Tendency("Head-Initial", "#22c55e")
       ELSE IF Less(rate, 300) THEN Tendency("Head-Final", "#3b82f6")
       ELSE Tendency("Mixed", "#a855f7")

\* LANGUAGE_LOCATIONS.filter(lang => lang.isPrimary)
getPrimaryLanguages == SelectSeq(allNodes, LAMBDA lang : lang.isPrimary)

\* Math.abs(rate - targetRate): NaN when one of them is
RateDiff(rate, targetRate) ==
    IF IsNumber(rate) /\ IsNumber(targetRate)
    THEN MathAbs(Minus(Decimal(rate.v, 1000), Decimal(targetRate.v, 1000)))
    ELSE NaN

\* diff < 0.15 (false for NaN)
DiffBelow(diff) == diff.tag = "double" /\ LessThan(diff, Decimal(15, 100))

\* The body of the for loop for one language, as the items it pushes.
SimilarItem(lang, languageName, targetRate, rates) ==
    IF lang.name = languageName THEN <<>>
    ELSE LET rate == Lookup(rates, verbObjKey, lang.name)
         IN IF NoRate(rate) THEN <<>>
            ELSE LET diff == RateDiff(rate, targetRate)
                 IN IF DiffBelow(diff) THEN << [name |-> lang.name, diff |-> diff] >>
                    ELSE <<>>

RECURSIVE SimilarItems(_, _, _, _)
SimilarItems(langs, languageName, targetRate, rates) ==
    IF langs = <<>> THEN <<>>
    ELSE SimilarItem(Head(langs), languageName, targetRate, rates)
         \o SimilarItems(Tail(langs), languageName, targetRate, rates)

\* One step of the stable sort by (a, b) => a.diff - b.diff; every diff
\* that reaches the sort is a number below 0.15.
InsertByDiff(sorted, item) ==
    LET k == Cardinality({i \in 1..Len(sorted) : ~LessThan(item.diff, sorted[i].diff)})
    IN SubSeq(sorted, 1, k) \o <<item>> \o SubSeq(sorted, k + 1, Len(sorted))

RECURSIVE SortByDiff(_)
SortByDiff(items) ==
    IF items = <<>> THEN <<>>
    ELSE InsertByDiff(SortByDiff(SubSeq(items, 1, Len(items) - 1)), items[Len(items)])

\* A faulty Slice3, for comparison: the list is not cut.
SliceNone(items) == items

\* .slice(0, 3)
Slice3(items) == SubSeq(items, 1, IF Len(items) < 3 THEN Len(items) ELSE 3)

getSimilarLanguages(languageName, rates) ==
    LET targetRate == Lookup(rates, verbObjKey, languageName)
    IN IF NoRate(targetRate) THEN <<>>
       ELSE LET similar == SimilarItems(getPrimaryLanguages, languageName, targetRate, rates)
                shown == Slice3(SortByDiff(similar))
            IN [i \in 1..Len(shown) |-> shown[i].name]

-----------------------------------------------------------------------------
(* The similarity-matrix documents the loader may receive.  A document has *)
(* the header row and one row per language; the two cells between English  *)
(* and Japanese are drawn from CellChoices, the other cells are fixed.  A   *)
(* row may stop early (CUT), which leaves its remaining cells without an    *)
(* entry.                                                                   *)

NumCellChoices == 5

CUT == <<"CUT">>

CellChoices ==
    SubSeq(<< <<"0", ".", "8", "2">>,
              CUT,
              <<>>,
              <<"0", ".", "0", "2">>,
              <<"a", "b", "c">>,
              <<"0", ".", "0", "5">>,
              <<"0", ".", "6">> >>, 1, NumCellChoices)

CellChoiceSet == {CellChoices[i] : i \in 1..Len(CellChoices)}

English == <<"E", "n", "g", "l", "i", "s", "h">>
Japanese == <<"J", "a", "p", "a", "n", "e", "s", "e">>
Portuguese == <<"P", "o", "r", "t", "u", "g", "u", "e", "s", "e">>

\* cells joined by commas, up to the first CUT
RECURSIVE CsvLine(_)
CsvLine(cells) ==
    IF cells = <<>> \/ Head(cells) = CUT THEN <<>>
    ELSE IF Len(cells) = 1 \/ cells[2] = CUT THEN Head(cells)
    ELSE Head(cells) \o <<",">> \o CsvLine(Tail(cells))

CsvDocument(enJa, jaEn) ==
    CsvLine(<< <<>>, Portuguese, English, Japanese >>) \o <<"\n">>
    \o CsvLine(<< English, <<"0", ".", "4">>, <<"0">>, enJa >>) \o <<"\n">>
    \o CsvLine(<< Japanese, <<"0", ".", "1">>, jaEn, <<"0">> >>) \o <<"\n">>
    \o CsvLine(<< Portuguese, <<"0">>, <<"0", ".", "4">>, <<"0", ".", "1">> >>) \o <<"\n">>

CsvDocuments == {CsvDocument(enJa, jaEn) : enJa \in CellChoiceSet, jaEn \in CellChoiceSet}

\* The documents with the same text in both cells.
SymmetricDocuments == {CsvDocument(cell, cell) : cell \in CellChoiceSet}

-----------------------------------------------------------------------------
(* pages/GlobePage.tsx and the hooks it mounts *)

EmptyMatrix == [r \in {} |-> [c \in {} |-> NaN]]

InitialFilter ==
    [veryClose |-> TRUE, close |-> TRUE, slightlyClose |-> TRUE,
     slightlyFar |-> FALSE, far |-> FALSE, veryFar |-> FALSE]

\* useMemo dependency lists of pointsData and arcsData
PointsDeps(sim, filter, selected) == <<selected>>

\* A faulty ArcsDeps, for comparison: distanceFilter is missing from the list.
ArcsDepsNoFilter(sim, filter, selected) == <<sim, selected>>

ArcsDeps(sim, filter, selected) == <<sim, filter, selected>>

\* A faulty Render, for comparison: the arcs array lives outside the memo
\* body, and each call pushes onto what the calls before left in it.
RenderKeepsArcs ==
    /\ pointsData' =
          IF PointsDeps(similarityData', distanceFilter', selectedNodeCode')
               = PointsDeps(similarityData, distanceFilter, selectedNodeCode)
          THEN pointsData
          ELSE BuildPoints(selectedNodeCode')
    /\ arcsData' =
          IF ArcsDeps(similarityData', distanceFilter', selectedNodeCode')
               = ArcsDeps(similarityData, distanceFilter, selectedNodeCode)
          THEN arcsData
          ELSE arcsData \o BuildArcs(similarityData', distanceFilter', selectedNodeCode')

\* A render after the state became (sim', filter', selected'): each memo is
\* recomputed when one of its dependencies changed and kept otherwise.
Render ==
    /\ pointsData' =
          IF PointsDeps(similarityData', distanceFilter', selectedNodeCode')
               = PointsDeps(similarityData, distanceFilter, selectedNodeCode)
          THEN pointsData
          ELSE BuildPoints(selectedNodeCode')
    /\ arcsData' =
          IF ArcsDeps(similarityData', distanceFilter', selectedNodeCode')
               = ArcsDeps(similarityData, distanceFilter, selectedNodeCode)
          THEN arcsData
          ELSE BuildArcs(similarityData', distanceFilter', selectedNodeCode')

\* useHeadDirectionRates before its fetch completes: useState({}), useState(true)
EmptyRates == [key \in {} |-> [lang \in {} |-> NaN]]

RatesInFlight ==
    /\ headDirectionRates = EmptyRates
    /\ ratesLoading = TRUE

\* no arc has been styled
NoStyle ==
    /\ arcDistance = Absent
    /\ arcCategory = undefined
    /\ arcOpacity = Absent
    /\ arcColor = Absent

\* The codes of the language selectors the model loads.
LoaderCodes == {"en", "ja"}

NoLoads == [code \in LoaderCodes |-> 0]

\* the module-level caches of useLazyLanguageData before any load
EmptyCaches ==
    /\ languageDataCache = {}
    /\ phraseDataCache = {}
    /\ failedLanguagesCache = {}
    /\ inFlight = NoLoads
    /\ fetched = NoLoads

\* ComparisonPage is not mounted: its state is the one of its useState calls
\* without route parameters, and no effect is due.
ComparisonUnmounted ==
    /\ selectedLang1 = ""
    /\ selectedLang2 = ""
    /\ zoom = Integer(1)
    /\ loadingLanguages = {}
    /\ effectPending = FALSE
    /\ EmptyCaches

\* The first render of a freshly mounted GlobePage.
Mounted ==
    /\ location = "/"
    /\ loading = TRUE
    /\ csvText = <<>>
    /\ similarityData = EmptyMatrix
    /\ selectedNodeCode = null
    /\ distanceFilter = InitialFilter
    /\ popupLanguage = null
    /\ pointsData = BuildPoints(null)
    /\ arcsData = BuildArcs(EmptyMatrix, InitialFilter, null)

Init ==
    /\ allNodes = LANGUAGE_LOCATIONS
    /\ RatesInFlight
    /\ NoStyle
    /\ ComparisonUnmounted
    /\ Mounted

\* A mounted page whose load is still in flight, after any clicks and
\* filter changes.
BuildInit ==
    /\ allNodes = LANGUAGE_LOCATIONS
    /\ RatesInFlight
    /\ NoStyle
    /\ ComparisonUnmounted
    /\ location = "/"
    /\ loading = TRUE
    /\ csvText = <<>>
    /\ similarityData = EmptyMatrix
    /\ selectedNodeCode \in {null} \cup NodeCodes
    /\ distanceFilter \in [Categories -> BOOLEAN]
    /\ popupLanguage = null
    /\ pointsData = BuildPoints(selectedNodeCode)
    /\ arcsData = BuildArcs(EmptyMatrix, distanceFilter, selectedNodeCode)

\* useSimilarityData, loadData: the response is OK and is parsed
LoadOk(documents) ==
    /\ location = "/" /\ loading
    /\ \E text \in documents :
          /\ csvText' = text
          /\ similarityData' = parseCSV(text)
    /\ loading' = FALSE
    /\ UNCHANGED <<location, selectedNodeCode, distanceFilter, popupLanguage>>
    /\ Render

\* loadData: the response is not OK, the empty table is set
LoadNotOk ==
    /\ location = "/" /\ loading
    /\ similarityData' = EmptyMatrix
    /\ loading' = FALSE
    /\ UNCHANGED <<location, csvText, selectedNodeCode, distanceFilter, popupLanguage>>
    /\ Render

\* loadData: a fetch throws, the catch only warns
LoadThrows ==
    /\ location = "/" /\ loading
    /\ loading' = FALSE
    /\ UNCHANGED <<location, csvText, similarityData, selectedNodeCode, distanceFilter,
                   popupLanguage>>
    /\ Render

\* A faulty ToggleSelection, for comparison: a click always selects.
ToggleSelectionAlwaysSelects(current, nodeCode) == nodeCode

\* The value handleLanguageClick sets (lines 37-41).
ToggleSelection(current, nodeCode) ==
    IF current = nodeCode THEN null ELSE nodeCode

\* handleLanguageClick, reached from handlePointClick with a rendered point
handleLanguageClick(nodeCode) ==
    /\ location = "/"
    /\ \E i \in DOMAIN pointsData : pointsData[i].code = nodeCode
    /\ selectedNodeCode' = ToggleSelection(selectedNodeCode, nodeCode)
    /\ UNCHANGED <<location, loading, csvText, similarityData, distanceFilter, popupLanguage>>
    /\ Render

\* selectedNode of GlobePage (lines 68-70): the panel with the clear and
\* details buttons is rendered when it is found
SelectedNodeShown ==
    Truthy(selectedNodeCode) /\ FindByCode(selectedNodeCode) # <<>>

\* handleShowPopup (details button)
handleShowPopup ==
    /\ location = "/"
    /\ SelectedNodeShown
    /\ popupLanguage' = IF Truthy(selectedNodeCode) /\ FindByCode(selectedNodeCode) # <<>>
                        THEN FindByCode(selectedNodeCode)[1].name
                        ELSE popupLanguage
    /\ UNCHANGED <<location, loading, csvText, similarityData, selectedNodeCode, distanceFilter>>
    /\ Render

\* handleClosePopup (the popup is rendered while popupLanguage is set)
handleClosePopup ==
    /\ location = "/"
    /\ Truthy(popupLanguage)
    /\ popupLanguage' = null
    /\ UNCHANGED <<location, loading, csvText, similarityData, selectedNodeCode, distanceFilter>>
    /\ Render

\* handleClearSelection (the clear button, or the ranking panel's close)
handleClearSelection ==
    /\ location = "/"
    /\ SelectedNodeShown \/ (Truthy(selectedNodeCode) /\ ~Truthy(popupLanguage))
    /\ selectedNodeCode' = null
    /\ UNCHANGED <<location, loading, csvText, similarityData, distanceFilter, popupLanguage>>
    /\ Render

\* A faulty ToggleFilter, for comparison: the category is switched on.
ToggleFilterOn(prev, key) == [prev EXCEPT ![key] = TRUE]

\* The updater of handleFilterChange: {...prev, [key]: !prev[key]}
ToggleFilter(prev, key) == [prev EXCEPT ![key] = ~prev[key]]

\* handleFilterChange (the legend is rendered while no node is selected)
handleFilterChange(key) ==
    /\ location = "/"
    /\ ~Truthy(selectedNodeCode)
    /\ distanceFilter' = ToggleFilter(distanceFilter, key)
    /\ UNCHANGED <<location, loading, csvText, similarityData, selectedNodeCode, popupLanguage>>
    /\ Render

\* A faulty ArcClickTarget, for comparison: the path is made of the arc's node codes.
ArcClickTargetNodeCodes(arc) ==
    IF ~arc.clickable THEN ""
    ELSE "/compare/" \o arc.node1Code \o "/" \o arc.node2Code

\* The path handleArcClick navigates to; "" when it does not navigate.
ArcClickTarget(arc) ==
    IF ~arc.clickable THEN ""
    ELSE LET lang1 == getLanguageByName(arc.lang1)
             lang2 == getLanguageByName(arc.lang2)
         IN IF lang1 # <<>> /\ lang2 # <<>>
            THEN "/compare/" \o lang1[1].code \o "/" \o lang2[1].code
            ELSE ""

\* handleArcClick on a rendered arc
handleArcClick(arc) ==
    /\ location = "/"
    /\ \E i \in DOMAIN arcsData : arcsData[i] = arc
    /\ location' = IF ArcClickTarget(arc) = "" THEN location ELSE ArcClickTarget(arc)
    /\ UNCHANGED <<loading, csvText, similarityData, selectedNodeCode, distanceFilter,
                   popupLanguage, pointsData, arcsData>>

\* ComparisonPage: <Link to="/">; the router mounts a new GlobePage, whose
\* state starts over
BackToGlobe ==
    /\ location # "/"
    /\ location' = "/"
    /\ loading' = TRUE
    /\ csvText' = <<>>
    /\ similarityData' = EmptyMatrix
    /\ selectedNodeCode' = null
    /\ distanceFilter' = InitialFilter
    /\ popupLanguage' = null
    /\ pointsData' = BuildPoints(null)
    /\ arcsData' = BuildArcs(EmptyMatrix, InitialFilter, null)

\* what a step of the globe page leaves alone
GlobeStep == UNCHANGED <<allNodes, rateVars, styleVars, compareVars>>

Next ==
    \/ LoadOk(SymmetricDocuments) /\ GlobeStep
    \/ LoadNotOk /\ GlobeStep
    \/ LoadThrows /\ GlobeStep
    \/ \E nodeCode \in NodeCodes : handleLanguageClick(nodeCode) /\ GlobeStep
    \/ handleShowPopup /\ GlobeStep
    \/ handleClosePopup /\ GlobeStep
    \/ handleClearSelection /\ GlobeStep
    \/ \E key \in Categories : handleFilterChange(key) /\ GlobeStep
    \/ \E i \in DOMAIN arcsData : handleArcClick(arcsData[i]) /\ GlobeStep
    \/ BackToGlobe /\ GlobeStep

Spec == Init /\ [][Next]_vars

\* The loader and the builders on every document, filter and selection.
BuildNext == LoadOk(CsvDocuments) /\ GlobeStep

BuildSpec == BuildInit /\ [][BuildNext]_vars

CodesOf(nodes) == {nodes[i].code : i \in 1..Len(nodes)}

\* The details popup over the whole registry: a mounted page after any
\* clicks, whose selected node's details are opened and closed and whose
\* selection is cleared.
RegistryInit ==
    /\ allNodes = ALL_LANGUAGE_LOCATIONS
    /\ RatesInFlight
    /\ NoStyle
    /\ ComparisonUnmounted
    /\ location = "/"
    /\ loading = TRUE
    /\ csvText = <<>>
    /\ similarityData = EmptyMatrix
    /\ selectedNodeCode \in {null} \cup CodesOf(allNodes)
    /\ distanceFilter = InitialFilter
    /\ popupLanguage = null
    /\ pointsData = BuildPoints(selectedNodeCode)
    /\ arcsData = BuildArcs(EmptyMatrix, distanceFilter, selectedNodeCode)

RegistryNext ==
    \/ handleShowPopup /\ GlobeStep
    \/ handleClosePopup /\ GlobeStep
    \/ handleClearSelection /\ GlobeStep

RegistrySpec == RegistryInit /\ [][RegistryNext]_vars

\* Node tables in which a primary row is missing: LANGUAGE_LOCATIONS
\* without the rows whose code is in removed.
WithoutRows(removed) == SelectSeq(LANGUAGE_LOCATIONS, LAMBDA l : l.code \notin removed)

DanglingTables == {WithoutRows({"pt"}), WithoutRows({"en"}), WithoutRows({"en", "pt"})}

\* The builders on a node table with unresolvable primaryCodes, for every
\* selection and filter, before and after the load.
TableInit ==
    /\ allNodes \in DanglingTables
    /\ RatesInFlight
    /\ NoStyle
    /\ ComparisonUnmounted
    /\ location = "/"
    /\ loading = TRUE
    /\ csvText = <<>>
    /\ similarityData = EmptyMatrix
    /\ selectedNodeCode \in {null} \cup CodesOf(allNodes)
    /\ distanceFilter \in [Categories -> BOOLEAN]
    /\ popupLanguage = null
    /\ pointsData = BuildPoints(selectedNodeCode)
    /\ arcsData = BuildArcs(EmptyMatrix, distanceFilter, selectedNodeCode)

TableNext == LoadOk(SymmetricDocuments) /\ GlobeStep

TableSpec == TableInit /\ [][TableNext]_vars

\* Distances an arc is styled for, in thousandths.
MaxNegative == 100
MaxDistance == 1100

StyleDistances == {Num(v) : v \in (0 - MaxNegative)..MaxDistance} \cup {NaN}

\* Second loop of arcsData, lines 257, 269 and 276 for one distance read
\* from the matrix: its category, its opacity and its color.
StyleArc(distance) ==
    /\ arcDistance = Absent
    /\ arcDistance' = distance
    /\ arcCategory' = getDistanceCategory(distance)
    /\ arcOpacity' = getDistanceOpacity(distance)
    /\ arcColor' = getDistanceColor(distance, getDistanceOpacity(distance))
    /\ UNCHANGED <<location, loading, csvText, similarityData, selectedNodeCode,
                   distanceFilter, popupLanguage, pointsData, arcsData, allNodes, rateVars,
                   compareVars>>

StyleInit == Init

StyleNext == \E distance \in StyleDistances : StyleArc(distance)

StyleSpec == StyleInit /\ [][StyleNext]_vars

\* the rows of the registry with the given codes, in source order
RowsOf(codes) == SelectSeq(ALL_LANGUAGE_LOCATIONS, LAMBDA l : l.code \in codes)

\* The node table of the popup specification: five primaries and a secondary.
PopupLocations == RowsOf({"en", "fi", "fr", "de", "hi", "en-us"})

NumRateChoices == 9

\* What parseHeadDirectionRatesCSV leaves for a language under a key: null
\* for an empty cell, no entry (Absent) for a language without a column,
\* parseFloat of the cell otherwise, in thousandths.
RateChoices ==
    SubSeq(<< Null, Absent, Num(800), Num(950), Num(700), Num(300), Num(299), Num(701), NaN,
              Num(650) >>,
           1, NumRateChoices)

RateChoiceSet == {RateChoices[i] : i \in 1..NumRateChoices}

ShortRateChoices == {Num(800), Num(950)}

\* The rates of the five primaries: English and Finnish take every choice,
\* the other three one of the short choices.
RateAssignments ==
    {[lang \in {"English", "Finnish", "French", "German", "Hindi"} |->
         IF lang = "English" THEN en ELSE IF lang = "Finnish" THEN fi ELSE others[lang]] :
       en \in RateChoiceSet, fi \in RateChoiceSet,
       others \in [{"French", "German", "Hindi"} -> ShortRateChoices]}

\* the row of a key: the languages that have a column
RateRow(assignment) ==
    [lang \in {l \in DOMAIN assignment : assignment[l] # Absent} |-> assignment[lang]]

\* The tables the rate file may parse to: the fixed key with each
\* assignment, and a table that has another key only.
RateTables ==
    {[key \in {verbObjKey} |-> RateRow(assignment)] : assignment \in RateAssignments}
    \cup {[key \in {"NOMINAL,MODIFIER,MODIFIER"} |->
              [lang \in {"English", "Finnish"} |-> Num(800)]]}

\* useHeadDirectionRates, loadData: the response is OK and is parsed
LoadRatesOk(tables) ==
    /\ ratesLoading
    /\ \E table \in tables : headDirectionRates' = table
    /\ ratesLoading' = FALSE
    /\ UNCHANGED <<location, loading, csvText, similarityData, selectedNodeCode,
                   distanceFilter, popupLanguage, pointsData, arcsData, allNodes, styleVars,
                   compareVars>>

\* loadData: the response is not OK, or the fetch throws and the catch warns
LoadRatesFails ==
    /\ ratesLoading
    /\ ratesLoading' = FALSE
    /\ UNCHANGED <<location, loading, csvText, similarityData, selectedNodeCode,
                   distanceFilter, popupLanguage, pointsData, arcsData, allNodes, styleVars,
                   headDirectionRates, compareVars>>

\* The details popup and the rate table: a mounted page after any clicks,
\* the rate file loading or failing, the details opened and closed.
PopupInit ==
    /\ allNodes = PopupLocations
    /\ RatesInFlight
    /\ NoStyle
    /\ ComparisonUnmounted
    /\ location = "/"
    /\ loading = TRUE
    /\ csvText = <<>>
    /\ similarityData = EmptyMatrix
    /\ selectedNodeCode \in {null} \cup CodesOf(allNodes)
    /\ distanceFilter = InitialFilter
    /\ popupLanguage = null
    /\ pointsData = BuildPoints(selectedNodeCode)
    /\ arcsData = BuildArcs(EmptyMatrix, distanceFilter, selectedNodeCode)

PopupNext ==
    \/ LoadRatesOk(RateTables)
    \/ LoadRatesFails
    \/ handleShowPopup /\ GlobeStep
    \/ handleClosePopup /\ GlobeStep

PopupSpec == PopupInit /\ [][PopupNext]_vars

-----------------------------------------------------------------------------
(* pages/ComparisonPage.tsx and useLazyLanguageData: the two language      *)
(* selectors, the load effect and loadLanguage.  A load in flight is one   *)
(* loadLanguage call between its first fetch and its return; what its      *)
(* responses turn out to be is drawn when it completes.  React runs the    *)
(* effects of a render before the next event is handled, so no other step  *)
(* is taken while the load effect is due.                                  *)

MaxFetches == 3

\* what a step of the comparison page leaves alone
CompareStep ==
    UNCHANGED <<loading, csvText, similarityData, selectedNodeCode, distanceFilter,
                popupLanguage, pointsData, arcsData, allNodes, rateVars, styleVars>>

\* GlobePage is not mounted: its variables hold the values of a first render
GlobeIdle ==
    /\ loading = TRUE
    /\ csvText = <<>>
    /\ similarityData = EmptyMatrix
    /\ selectedNodeCode = null
    /\ distanceFilter = InitialFilter
    /\ popupLanguage = null
    /\ pointsData = BuildPoints(null)
    /\ arcsData = BuildArcs(EmptyMatrix, InitialFilter, null)

\* the routes of ComparisonPage: /compare and /compare/:lang1/:lang2
RouteParams == {<<"", "">>} \cup (LoaderCodes \X LoaderCodes)

ComparePath(lang1, lang2) == "/compare/" \o lang1 \o "/" \o lang2

\* ComparisonPage as first rendered under a route: useState(urlLang1 || ''),
\* useState(urlLang2 || ''), useState(1.0), an empty loadingLanguages, and
\* its effects due.
ComparisonMounted(urlLang1, urlLang2) ==
    /\ location = IF urlLang1 = "" THEN "/compare" ELSE ComparePath(urlLang1, urlLang2)
    /\ selectedLang1 = urlLang1
    /\ selectedLang2 = urlLang2
    /\ zoom = Integer(1)
    /\ loadingLanguages = {}
    /\ effectPending = TRUE

isLanguageLoaded(code) == code \in languageDataCache

isLanguageLoading(code) == code \in loadingLanguages

\* toLoad of the load effect, in push order
ToLoad ==
    (IF Truthy(selectedLang1) /\ ~isLanguageLoaded(selectedLang1)
     THEN <<selectedLang1>> ELSE <<>>)
    \o (IF Truthy(selectedLang2) /\ ~isLanguageLoaded(selectedLang2)
        THEN <<selectedLang2>> ELSE <<>>)

\* loadLanguage passes its three early returns (lines 98-111) and goes on to
\* setLoadingLanguages and fetch.  loadingLanguages is the set of the render
\* the callback was created in.
StartsFetch(code) ==
    /\ code \notin languageDataCache
    /\ code \notin failedLanguagesCache
    /\ code \notin loadingLanguages

\* the calls of toLoad.map(code => loadLanguage(code)) that fetch: every call
\* is made before the next render, with the same callback
Started == SelectSeq(ToLoad, StartsFetch)

CountIn(codes, code) == Cardinality({i \in DOMAIN codes : codes[i] = code})

\* The load effect (ComparisonPage.tsx:48-67) with the synchronous part of
\* the loadLanguage calls it makes.  A call that fetches has queued a
\* setLoadingLanguages: the next render has a new loadLanguage, which is a
\* dependency of the effect, and the effect is due again.
RunEffect ==
    /\ effectPending
    /\ \A code \in LoaderCodes : fetched[code] + CountIn(Started, code) <= MaxFetches
    /\ inFlight' = [code \in LoaderCodes |-> inFlight[code] + CountIn(Started, code)]
    /\ fetched' = [code \in LoaderCodes |-> fetched[code] + CountIn(Started, code)]
    /\ loadingLanguages' = loadingLanguages \cup {Started[i] : i \in DOMAIN Started}
    /\ effectPending' = (Started # <<>>)
    /\ UNCHANGED <<location, selectedLang1, selectedLang2, zoom, languageDataCache,
                   phraseDataCache, failedLanguagesCache>>

\* How the rest of a loadLanguage call may go (lines 115-157):
\*   loaded            a language file and a phrase file were OK
\*   languageOnly      a language file was OK, no phrase file was
\*   notOk             neither language file was OK, nor a phrase file
\*   phrasesOnly       neither language file was OK, a phrase file was
\*   throws            a fetch or the language's json() threw
\*   throwsAfterStore  the language was stored, then the phrases' json() threw
LoadOutcomes == {"loaded", "languageOnly", "notOk", "phrasesOnly", "throws", "throwsAfterStore"}

\* One loadLanguage call runs from its responses to its return.  Each path
\* ends with a setLoadingLanguages, so the effect is due again.
LoadCompletes(code, outcome) ==
    /\ ~effectPending
    /\ inFlight[code] > 0
    /\ inFlight' = [inFlight EXCEPT ![code] = @ - 1]
    /\ languageDataCache' =
          IF outcome \in {"loaded", "languageOnly", "throwsAfterStore"}
          THEN languageDataCache \cup {code} ELSE languageDataCache
    /\ phraseDataCache' =
          IF outcome \in {"loaded", "phrasesOnly"}
          THEN phraseDataCache \cup {code} ELSE phraseDataCache
    /\ failedLanguagesCache' =
          IF outcome \in {"throws", "throwsAfterStore"}
          THEN failedLanguagesCache \cup {code} ELSE failedLanguagesCache
    /\ loadingLanguages' = loadingLanguages \ {code}
    /\ effectPending' = TRUE
    /\ UNCHANGED <<location, selectedLang1, selectedLang2, zoom, fetched>>

\* the effect at lines 70-74: navigate(`/compare/${l1}/${l2}`, {replace: true})
\* once both selectors hold a language
Navigated(lang1, lang2) ==
    IF Truthy(lang1) /\ Truthy(lang2) THEN ComparePath(lang1, lang2) ELSE location

\* onLang1Change = setSelectedLang1, from the first <select>
SelectLang1(code) ==
    /\ ~effectPending
    /\ code # selectedLang1
    /\ selectedLang1' = code
    /\ location' = Navigated(code, selectedLang2)
    /\ effectPending' = TRUE
    /\ UNCHANGED <<selectedLang2, zoom, languageDataCache, phraseDataCache,
                   failedLanguagesCache, loadingLanguages, inFlight, fetched>>

\* onLang2Change = setSelectedLang2, from the second <select>
SelectLang2(code) ==
    /\ ~effectPending
    /\ code # selectedLang2
    /\ selectedLang2' = code
    /\ location' = Navigated(selectedLang1, code)
    /\ effectPending' = TRUE
    /\ UNCHANGED <<selectedLang1, zoom, languageDataCache, phraseDataCache,
                   failedLanguagesCache, loadingLanguages, inFlight, fetched>>

\* the options of a selector: the empty one and the codes
SelectorOptions == {""} \cup LoaderCodes

\* The comparison page opened in a fresh session, under any of its routes.
LoaderInit ==
    /\ allNodes = LANGUAGE_LOCATIONS
    /\ RatesInFlight
    /\ NoStyle
    /\ GlobeIdle
    /\ EmptyCaches
    /\ \E params \in RouteParams : ComparisonMounted(params[1], params[2])

LoaderNext ==
    \/ RunEffect /\ CompareStep
    \/ \E code \in LoaderCodes, outcome \in LoadOutcomes :
          LoadCompletes(code, outcome) /\ CompareStep
    \/ \E code \in SelectorOptions : SelectLang1(code) /\ CompareStep
    \/ \E code \in SelectorOptions : SelectLang2(code) /\ CompareStep

LoaderSpec == LoaderInit /\ [][LoaderNext]_vars

-----------------------------------------------------------------------------
(* ComparisonPage.tsx and ZoomControls.tsx: the zoom factor.  The zoom     *)
(* buttons are part of ComparisonArea, which shows them once both selected *)
(* languages have data and neither is loading.                             *)

\* the deltas of the zoom buttons: onZoomChange(0.1), onZoomChange(-0.1)
ZoomDeltas == {Decimal(1, 10), Negate(Decimal(1, 10))}

MinZoom == Decimal(5, 10)
MaxZoom == Integer(2)

\* isLoading of ComparisonPage (lines 128-129)
isLoading ==
    \/ Truthy(selectedLang1) /\ isLanguageLoading(selectedLang1)
    \/ Truthy(selectedLang2) /\ isLanguageLoading(selectedLang2)

\* ComparisonArea is rendered with data for both languages, past its notice
ZoomControlsShown ==
    /\ ~effectPending
    /\ ~isLoading
    /\ isLanguageLoaded(selectedLang1)
    /\ isLanguageLoaded(selectedLang2)

\* A faulty ClampZoom, for comparison: the lower bound is not applied.
ClampZoomUpperOnly(value) == MathMin(MaxZoom, value)

\* Math.max(0.5, Math.min(2.0, value))
ClampZoom(value) == MathMax(MinZoom, MathMin(MaxZoom, value))

\* handleZoomChange: setZoom(prev => Math.max(0.5, Math.min(2.0, prev + delta)))
handleZoomChange(delta) ==
    /\ ZoomControlsShown
    /\ zoom' = ClampZoom(Plus(zoom, delta))
    /\ UNCHANGED <<location, selectedLang1, selectedLang2, loaderVars>>

\* handleZoomReset: setZoom(1.0)
handleZoomReset ==
    /\ ZoomControlsShown
    /\ zoom' = Integer(1)
    /\ UNCHANGED <<location, selectedLang1, selectedLang2, loaderVars>>

\* the caches of a session in which every language has been loaded before
LoadedCaches ==
    /\ languageDataCache = LoaderCodes
    /\ phraseDataCache = LoaderCodes
    /\ failedLanguagesCache = {}
    /\ inFlight = NoLoads
    /\ fetched = [code \in LoaderCodes |-> 1]

\* The comparison page opened, under any of its routes, in a session whose
\* languages are loaded.
ZoomInit ==
    /\ allNodes = LANGUAGE_LOCATIONS
    /\ RatesInFlight
    /\ NoStyle
    /\ GlobeIdle
    /\ LoadedCaches
    /\ \E params \in RouteParams : ComparisonMounted(params[1], params[2])

ZoomNext ==
    \/ RunEffect /\ CompareStep
    \/ \E code \in SelectorOptions : SelectLang1(code) /\ CompareStep
    \/ \E code \in SelectorOptions : SelectLang2(code) /\ CompareStep
    \/ \E delta \in ZoomDeltas : handleZoomChange(delta) /\ CompareStep
    \/ handleZoomReset /\ CompareStep

ZoomSpec == ZoomInit /\ [][ZoomNext]_vars

-----------------------------------------------------------------------------
(* components/SentenceSelector.tsx, HeadDirectionPanel: the table of rate  *)
(* differences between the two compared languages.  A rate is a value in   *)
(* thousandths or Null; the differences are doubles.  The tables hold      *)
(* numbers and empty cells.                                                *)

NumPanelKeys == 16

PanelHeads == <<"VERBAL", "NOMINAL", "MODIFIER", "FUNCTION", "OTHER">>
PanelDeps == <<"NOMINAL", "VERBAL", "MODIFIER", "FUNCTION">>

\* the three cells a row of the rate file starts with
PanelKeyParts(i) ==
    << PanelHeads[((i - 1) \div Len(PanelDeps)) + 1],
       PanelDeps[((i - 1) % Len(PanelDeps)) + 1],
       "CORE_ARG" >>

\* `${headUpos},${depUpos},${deprel}` (part_005:55)
JoinKey(parts) == parts[1] \o "," \o parts[2] \o "," \o parts[3]

\* the keys in the order of the file's rows, which is the order of
\* Object.entries
PanelKeyOrder == [i \in 1..NumPanelKeys |-> JoinKey(PanelKeyParts(i))]

\* key.split(','), for the keys the parser builds
KeyParts(key) ==
    PanelKeyParts(CHOOSE i \in 1..NumPanelKeys : PanelKeyOrder[i] = key)

PanelPatterns == {"numbers", "gaps", "sparse"}

\* the cell of row i in a column filled by the pattern
PanelRate(pattern, i) ==
    IF pattern = "numbers" THEN Num((i * 137) % 1001)
    ELSE IF pattern = "gaps" THEN (IF i % 3 = 0 THEN Null ELSE Num((i * 91) % 1001))
    ELSE (IF i % 2 = 0 THEN Null ELSE Num(500))

PanelCounts == {0, 1, 2, 3, NumPanelKeys - 1, NumPanelKeys}

\* The tables the rate file may parse to: the first count rows, with a
\* column for English and one for Japanese.
PanelTables ==
    {[key \in {PanelKeyOrder[i] : i \in 1..count} |->
        LET i == CHOOSE k \in 1..count : PanelKeyOrder[k] = key
        IN [lang \in {"English", "Japanese"} |->
              PanelRate(IF lang = "English" THEN en ELSE ja, i)]] :
       count \in PanelCounts, en \in PanelPatterns, ja \in PanelPatterns}

\* the `language` field of the data file of a code
LanguageField == [code \in LoaderCodes |-> IF code = "en" THEN "English" ELSE "Japanese"]

\* lang1Full, lang2Full: lang1Data?.language || selectedLang1
FullName(code) == IF isLanguageLoaded(code) THEN LanguageField[code] ELSE code

\* Object.entries(headDirectionRates), as the keys in insertion order
ObjectEntries(rates) == SelectSeq(PanelKeyOrder, LAMBDA key : key \in DOMAIN rates)

\* rates[langName] ?? null
RateOrNull(row, langName) ==
    IF langName \notin DOMAIN row THEN Null
    ELSE IF row[langName] = Absent THEN Null
    ELSE row[langName]

\* The body of the for loop for one entry, as the pairs it pushes.
ParsedPair(key, row, lang1Name, lang2Name) ==
    LET parts == KeyParts(key)
        lang1Rate == RateOrNull(row, lang1Name)
        lang2Rate == RateOrNull(row, lang2Name)
    IN IF Len(parts) # 3 THEN <<>>
       ELSE IF lang1Rate = Null /\ lang2Rate = Null THEN <<>>
       ELSE << [headUpos |-> parts[1], depUpos |-> parts[2], deprel |-> parts[3],
                key |-> key, lang1Rate |-> lang1Rate, lang2Rate |-> lang2Rate,
                diff |-> IF lang1Rate # Null /\ lang2Rate # Null
                         THEN Minus(Decimal(lang1Rate.v, 1000), Decimal(lang2Rate.v, 1000))
                         ELSE Null] >>

RECURSIVE ParsedPairs(_, _, _, _)
ParsedPairs(keys, rates, lang1Name, lang2Name) ==
    IF keys = <<>> THEN <<>>
    ELSE ParsedPair(Head(keys), rates[Head(keys)], lang1Name, lang2Name)
         \o ParsedPairs(Tail(keys), rates, lang1Name, lang2Name)

\* a.diff !== null ? Math.abs(a.diff) : 0
AbsDiff(pair) == IF pair.diff = Null THEN Zero ELSE MathAbs(pair.diff)

\* One step of the stable sort by (a, b) => absB - absA: the pair goes
\* behind every element whose absolute difference is not smaller than its.
InsertByAbsDiff(sorted, pair) ==
    LET k == Cardinality({i \in 1..Len(sorted) : ~LessThan(AbsDiff(sorted[i]), AbsDiff(pair))})
    IN SubSeq(sorted, 1, k) \o <<pair>> \o SubSeq(sorted, k + 1, Len(sorted))

RECURSIVE SortByAbsDiff(_)
SortByAbsDiff(pairs) ==
    IF pairs = <<>> THEN <<>>
    ELSE InsertByAbsDiff(SortByAbsDiff(SubSeq(pairs, 1, Len(pairs) - 1)), pairs[Len(pairs)])

\* .slice(0, 15)
Slice15(pairs) == SubSeq(pairs, 1, IF Len(pairs) < 15 THEN Len(pairs) ELSE 15)

\* pairs of HeadDirectionPanel (useMemo body)
HeadDirectionPairs(rates, lang1Name, lang2Name) ==
    Slice15(SortByAbsDiff(ParsedPairs(ObjectEntries(rates), rates, lang1Name, lang2Name)))

\* The comparison page opened, under any of its routes, in a session whose
\* languages are loaded, while the rate file is in flight.
PanelInit == ZoomInit

PanelNext ==
    \/ RunEffect /\ CompareStep
    \/ \E code \in SelectorOptions : SelectLang1(code) /\ CompareStep
    \/ \E code \in SelectorOptions : SelectLang2(code) /\ CompareStep
    \/ LoadRatesOk(PanelTables)
    \/ LoadRatesFails

PanelSpec == PanelInit /\ [][PanelNext]_vars

-----------------------------------------------------------------------------
(* Vocabulary of the properties *)

NodeOf(i) == LANGUAGE_LOCATIONS[i]

\* index pairs i < j: the unordered pairs of nodes
UnorderedPairs == {<<i, j>> \in NodeIndexes \X NodeIndexes : i < j}

\* the two nodes denote the same language
SameLanguageNodes(i, j) == NodeOf(i).name = NodeOf(j).name

\* a secondary and its primary, or two secondaries sharing a primary
SameLanguagePair(i, j) ==
    \/ ~NodeOf(i).isPrimary /\ NodeOf(i).primaryCode = NodeOf(j).code
    \/ ~NodeOf(j).isPrimary /\ NodeOf(j).primaryCode = NodeOf(i).code
    \/ /\ ~NodeOf(i).isPrimary /\ ~NodeOf(j).isPrimary
       /\ NodeOf(i).primaryCode = NodeOf(j).primaryCode

\* the language a node stands for in the matrix
Representative(i) ==
    IF NodeOf(i).isPrimary THEN NodeOf(i).name
    ELSE LET p == CHOOSE k \in NodeIndexes : NodeOf(k).code = NodeOf(i).primaryCode
         IN NodeOf(p).name

\* the code of a node's primary
PrimaryCodeOf(code) ==
    LET i == CHOOSE k \in NodeIndexes : NodeOf(k).code = code
    IN IF NodeOf(i).isPrimary THEN code ELSE NodeOf(i).primaryCode

\* the matrix holds an entry for the ordered pair of languages (a, b)
HasEntry(a, b) == a \in DOMAIN similarityData /\ b \in DOMAIN similarityData[a]

\* the entry for the ordered pair of languages (a, b), when there is one
Entry(a, b) == similarityData[a][b]

\* the matrix holds a distance (a number) for the ordered pair (a, b)
HasDistance(a, b) == HasEntry(a, b) /\ IsNumber(Entry(a, b))

\* the distance build reads for the pair i < j: row of the earlier node
PairHasData(i, j) == HasDistance(Representative(i), Representative(j))

PairData(i, j) == Entry(Representative(i), Representative(j))

IsSimilarityArc(arc) == arc.category # "same"

Joins(arc, i, j) == {arc.node1Code, arc.node2Code} = {NodeOf(i).code, NodeOf(j).code}

\* positions of the similarity arcs / same-language arcs between nodes i and j
SimilarityArcsBetween(i, j) ==
    {k \in DOMAIN arcsData : IsSimilarityArc(arcsData[k]) /\ Joins(arcsData[k], i, j)}

SameArcsBetween(i, j) ==
    {k \in DOMAIN arcsData : arcsData[k].category = "same" /\ Joins(arcsData[k], i, j)}

HasEndpoint(arc, code) == arc.node1Code = code \/ arc.node2Code = code

AllFilter(value) == [key \in Categories |-> value]

OnlyFilter(category) == [key \in Categories |-> key = category]

\* the load has completed: the document was parsed and the lists rebuilt
Built == ~loading /\ csvText # <<>>

C3_SameLanguageArcs ==
    /\ \A p \in UnorderedPairs :
          SameLanguagePair(p[1], p[2]) => Cardinality(SameArcsBetween(p[1], p[2])) = 1
    /\ \A k \in DOMAIN arcsData : arcsData[k].category = "same" => ~arcsData[k].clickable

\* C3 witness: a node of another language is selected, every filter box is
\* off, and the two English secondaries are joined by a "same" arc.
C3_Witness ==
    /\ Built
    /\ selectedNodeCode = "ja"
    /\ distanceFilter = AllFilter(FALSE)
    /\ SameArcsBetween(4, 5) # {}

\* the rule of visibility for a pair: the selection when there is one,
\* the filter box of the distance's category otherwise
Visible(i, j, d) ==
    IF Truthy(selectedNodeCode)
    THEN selectedNodeCode \in {NodeOf(i).code, NodeOf(j).code}
    ELSE distanceFilter[getDistanceCategory(d)]

\* C4: a different-language pair whose languages have a distance in
\* exactly one direction still gets its similarity arc (when the rule of
\* visibility shows it), in whichever order its nodes stand in the list.
C4_EitherDirection ==
    Built =>
        \A p \in UnorderedPairs :
            LET a == Representative(p[1])
                b == Representative(p[2])
            IN /\ (~SameLanguageNodes(p[1], p[2]) /\ HasDistance(a, b) /\ ~HasEntry(b, a)
                     /\ Visible(p[1], p[2], Entry(a, b)))
                  => SimilarityArcsBetween(p[1], p[2]) # {}
               /\ (~SameLanguageNodes(p[1], p[2]) /\ HasDistance(b, a) /\ ~HasEntry(a, b)
                     /\ Visible(p[1], p[2], Entry(b, a)))
                  => SimilarityArcsBetween(p[1], p[2]) # {}

IndexOfCode(code) == CHOOSE k \in NodeIndexes : NodeOf(k).code = code

\* the lists the ranking panel may show in this state (none unless a node
\* is selected)
Rankings ==
    IF Truthy(selectedNodeCode)
    THEN sortedSimilarities(selectedNodeCode, similarityData)
    ELSE {<<>>}

\* value is what the matrix holds for the languages of nodes i and j, in
\* one direction or the other
HeldByMatrix(i, j, value) ==
    LET a == Representative(i)
        b == Representative(j)
    IN \/ HasEntry(a, b) /\ Entry(a, b) = value
       \/ HasEntry(b, a) /\ Entry(b, a) = value

\* C5: a pair without an entry in either direction gets no similarity arc
\* and no ranking entry; the distance of every similarity arc and of every
\* ranking entry is one the matrix holds for that pair.
C5_MissingDataSkipped ==
    Built =>
        /\ \A p \in UnorderedPairs :
              LET a == Representative(p[1])
                  b == Representative(p[2])
              IN (~SameLanguageNodes(p[1], p[2]) /\ ~HasEntry(a, b) /\ ~HasEntry(b, a)) =>
                    /\ SimilarityArcsBetween(p[1], p[2]) = {}
                    /\ \A r \in Rankings : \A k \in DOMAIN r :
                          {selectedNodeCode, r[k].code} # {NodeOf(p[1]).code, NodeOf(p[2]).code}
        /\ \A k \in DOMAIN arcsData :
              IsSimilarityArc(arcsData[k]) =>
                  HeldByMatrix(IndexOfCode(arcsData[k].node1Code),
                               IndexOfCode(arcsData[k].node2Code), arcsData[k].distance)
        /\ \A r \in Rankings : \A k \in DOMAIN r :
              HeldByMatrix(IndexOfCode(selectedNodeCode), IndexOfCode(r[k].code), r[k].distance)

\* C5 witness: English and Japanese have no entry in either direction, ja
\* is selected, no arc joins ja to en, and an arc and a ranking entry for
\* pt carry the 0.1 the matrix holds.
C5_Witness ==
    /\ Built
    /\ ~HasEntry("English", "Japanese") /\ ~HasEntry("Japanese", "English")
    /\ selectedNodeCode = "ja"
    /\ SimilarityArcsBetween(1, 2) = {}
    /\ \E k \in SimilarityArcsBetween(2, 3) : arcsData[k].distance = Num(100)
    /\ \E r \in Rankings : \E k \in DOMAIN r : r[k].code = "pt" /\ r[k].distance = Num(100)

\* a cell text that is empty or has no digit
MalformedCell(text) == text # CUT /\ \A i \in DOMAIN text : text[i] \notin Digits

\* C6: when the cells between English and Japanese hold no number, one of
\* them being empty or non-numeric, no English/Japanese pair gets a
\* similarity arc or a ranking entry, and the other cells of the document
\* are still used.
C6_MalformedCellAbsent ==
    Built =>
        \A enJa \in CellChoiceSet, jaEn \in CellChoiceSet :
            (/\ csvText = CsvDocument(enJa, jaEn)
             /\ enJa = CUT \/ MalformedCell(enJa)
             /\ jaEn = CUT \/ MalformedCell(jaEn)
             /\ MalformedCell(enJa) \/ MalformedCell(jaEn))
            => /\ \A p \in UnorderedPairs :
                     {Representative(p[1]), Representative(p[2])} = {"English", "Japanese"} =>
                         /\ SimilarityArcsBetween(p[1], p[2]) = {}
                         /\ \A r \in Rankings : \A k \in DOMAIN r :
                               {selectedNodeCode, r[k].code}
                                  # {NodeOf(p[1]).code, NodeOf(p[2]).code}
               /\ HasDistance("Japanese", "Portuguese")
               /\ HasDistance("Portuguese", "English")

\* C9: with a node selected, every node of another language that has a
\* distance from the selected language has exactly one ranking entry, with
\* that distance and similarity = 1 - distance, and the entries stand in
\* non-decreasing order of distance.
C9_Ranking ==
    (Built /\ Truthy(selectedNodeCode)) =>
        LET x == IndexOfCode(selectedNodeCode)
        IN \A r \in Rankings :
              /\ \A n \in NodeIndexes :
                    (~SameLanguageNodes(n, x) /\ HasDistance(Representative(x), Representative(n)))
                    => LET d == Entry(Representative(x), Representative(n))
                           at == {k \in DOMAIN r : r[k].code = NodeOf(n).code}
                       IN /\ Cardinality(at) = 1
                          /\ \A k \in at : r[k].distance = d /\ r[k].similarity = Num(1000 - d.v)
              /\ \A k \in 1..(Len(r) - 1) :
                    /\ IsNumber(r[k].distance) /\ IsNumber(r[k + 1].distance)
                    /\ r[k].distance.v <= r[k + 1].distance.v

\* C7: the selection is null or one node code, at the start and after every
\* step; a click on node c selects c unless c is the selection, in which
\* case it clears it (as the value the handler computes, and as the step it
\* takes); an explicit clear leaves nothing selected.
C7_SelectionMachine ==
    /\ selectedNodeCode \in {null} \cup NodeCodes
    /\ \A c \in NodeCodes :
          /\ ToggleSelection(c, c) = null
          /\ \A current \in ({null} \cup NodeCodes) \ {c} : ToggleSelection(current, c) = c
    /\ [][ /\ selectedNodeCode' \in {null} \cup NodeCodes
           /\ \A c \in NodeCodes :
                 handleLanguageClick(c) =>
                     /\ selectedNodeCode # c => selectedNodeCode' = c
                     /\ selectedNodeCode = c => selectedNodeCode' = null
           /\ handleClearSelection => selectedNodeCode' = null ]_vars

\* C7 witness: en-us is selected while the popup still shows Japanese, so
\* a click has moved the selection from ja to en-us.
C7_Witness ==
    /\ selectedNodeCode = "en-us"
    /\ popupLanguage = "Japanese"

\* C8: a click on a clickable arc changes neither the selection nor the
\* filter and navigates to /compare/<from>/<to>, the codes of the primaries
\* of its two endpoints; a click on a same-language arc navigates nowhere.
C8_ArcClick ==
    [][ \A k \in DOMAIN arcsData :
           handleArcClick(arcsData[k]) =>
               /\ selectedNodeCode' = selectedNodeCode
               /\ distanceFilter' = distanceFilter
               /\ IF arcsData[k].clickable
                  THEN location' = "/compare/" \o PrimaryCodeOf(arcsData[k].node1Code)
                                     \o "/" \o PrimaryCodeOf(arcsData[k].node2Code)
                  ELSE location' = location ]_vars

\* C8 witness: the arc between ja and the selected secondary en-us was
\* clicked; the request names ja and en, and en-us is still selected.
C8_Witness ==
    /\ location = "/compare/ja/en"
    /\ selectedNodeCode = "en-us"

\* C10: in every state the point list and the arc list handed to the
\* renderer are the ones build gives for the current matrix, filter and
\* selection.
C10_ListsFollowState ==
    /\ pointsData = BuildPoints(selectedNodeCode)
    /\ arcsData = BuildArcs(similarityData, distanceFilter, selectedNodeCode)

\* C10 witness: after the load, a selection that was cleared again and two
\* filter changes, the list holds a veryFar arc and no veryClose one.
C10_Witness ==
    /\ Built
    /\ ~Truthy(selectedNodeCode)
    /\ popupLanguage = "Japanese"
    /\ distanceFilter = [InitialFilter EXCEPT !.veryFar = TRUE, !.veryClose = FALSE]
    /\ \E k \in DOMAIN arcsData : arcsData[k].category = "veryFar"

\* C11: while the matrix and the rate table are empty, whatever the
\* selection and the filter, the lists hold one point per node, the
\* same-language arcs and no similarity arc, the ranking is empty, and for
\* every language the word-order summary is Unknown without similar
\* languages.
C11_EmptyTables ==
    (similarityData = EmptyMatrix /\ headDirectionRates = EmptyRates) =>
        /\ Len(pointsData) = Len(allNodes)
        /\ \A i \in NodeIndexes : pointsData[i].code = NodeOf(i).code
        /\ \A p \in UnorderedPairs :
              Cardinality(SameArcsBetween(p[1], p[2]))
                 = IF SameLanguagePair(p[1], p[2]) THEN 1 ELSE 0
        /\ \A k \in DOMAIN arcsData : ~IsSimilarityArc(arcsData[k])
        /\ Rankings = {<<>>}
        /\ \A i \in NodeIndexes :
              /\ getWordOrderTendency(NodeOf(i).name, headDirectionRates).tendency = "Unknown"
              /\ getSimilarLanguages(NodeOf(i).name, headDirectionRates) = <<>>

\* C11 witness: the load has failed, ja is selected with its popup open
\* and the veryFar box is on.
C11_Witness ==
    /\ ~loading
    /\ similarityData = EmptyMatrix /\ headDirectionRates = EmptyRates
    /\ selectedNodeCode = "ja"
    /\ popupLanguage = "Japanese"
    /\ distanceFilter["veryFar"]

\* C12: for every secondary s with primary p and every node n of another
\* language, with nothing selected or n selected, s-n has a similarity arc
\* exactly when p-n has one, and the two arcs carry the same distance and
\* the same category, whatever the matrix.
C12_SecondarySharesPrimary ==
    Built =>
        \A s \in NodeIndexes, p \in NodeIndexes, n \in NodeIndexes :
            (/\ ~NodeOf(s).isPrimary /\ NodeOf(s).primaryCode = NodeOf(p).code
             /\ ~SameLanguageNodes(n, p)
             /\ selectedNodeCode \in {null, NodeOf(n).code})
            => LET ofSecondary == SimilarityArcsBetween(s, n)
                   ofPrimary == SimilarityArcsBetween(p, n)
               IN /\ ofSecondary # {} <=> ofPrimary # {}
                  /\ \A i \in ofSecondary, j \in ofPrimary :
                        /\ arcsData[i].distance = arcsData[j].distance
                        /\ arcsData[i].category = arcsData[j].category

\* a secondary row whose primaryCode is the code of no row
Dangling(i) ==
    /\ ~allNodes[i].isPrimary
    /\ \A k \in 1..Len(allNodes) : allNodes[k].code # allNodes[i].primaryCode

-----------------------------------------------------------------------------
\* C14: in the static registry every code is unique; every non-primary node's
\* primaryCode resolves to exactly one node, which is primary and has the
\* same display name; every primary node has no primaryCode.
C14_RegistryWellFormed ==
    /\ allNodes = ALL_LANGUAGE_LOCATIONS
    /\ \A i, j \in 1..Len(allNodes) : allNodes[i].code = allNodes[j].code => i = j
    /\ \A i \in 1..Len(allNodes) :
          LET node == allNodes[i]
              found == FindByCode(node.primaryCode)
          IN IF node.isPrimary
             THEN node.primaryCode = undefined
             ELSE /\ Len(found) = 1
                  /\ found[1].isPrimary
                  /\ found[1].name = node.name

\* The details of a secondary node are open: the popup carries the display
\* name the node shares with its primary.
C14_Witness ==
    /\ allNodes = ALL_LANGUAGE_LOCATIONS
    /\ selectedNodeCode = "zh-tw"
    /\ popupLanguage = "Chinese"
    /\ getLanguageByName(popupLanguage) # <<>>
    /\ getLanguageByName(popupLanguage)[1].code = "zh"

-----------------------------------------------------------------------------
\* what the memo bodies of pointsData and arcsData read
BuildInputs == <<allNodes, similarityData, distanceFilter, selectedNodeCode>>

\* C15: build is deterministic and free of side effects.  In every step the
\* lists after it are the builders' values for the inputs after it, whatever
\* the calls before returned; a step with the same inputs leaves both lists
\* as they were, element for element; the node table never changes, and a
\* step of the mounted page changes no input but the one its handler sets.
C15_BuildDeterministic ==
    [][ /\ pointsData' = BuildPoints(selectedNodeCode')
        /\ arcsData' = BuildArcs(similarityData', distanceFilter', selectedNodeCode')
        /\ BuildInputs' = BuildInputs => pointsData' = pointsData /\ arcsData' = arcsData
        /\ allNodes' = allNodes
        /\ location' = location =>
              Cardinality({k \in 1..4 : BuildInputs'[k] # BuildInputs[k]}) <= 1
      ]_vars

\* The builders were called again with inputs they were called with before:
\* after the load a node was selected, its details opened and the selection
\* cleared, and the lists are those of the first call.
C15_Witness ==
    /\ Built
    /\ popupLanguage = "English"
    /\ selectedNodeCode = null
    /\ distanceFilter = InitialFilter
    /\ \E k \in DOMAIN arcsData : IsSimilarityArc(arcsData[k])
    /\ pointsData = BuildPoints(null)
    /\ arcsData = BuildArcs(similarityData, InitialFilter, null)

-----------------------------------------------------------------------------
\* the arc has been styled for a finite distance
Styled == IsNumber(arcDistance)

\* the styled distance d satisfies lo <= d < hi as doubles (thousandths)
Within(lo, hi) ==
    /\ ~LessThan(ToDouble(arcDistance), Decimal(lo, 1000))
    /\ LessThan(ToDouble(arcDistance), Decimal(hi, 1000))

\* C16: every finite non-negative distance falls in exactly one of the six
\* buckets, lower bounds included: [0, 0.05) veryClose, [0.05, 0.10) close,
\* [0.10, 0.30) slightlyClose, [0.30, 0.50) slightlyFar, [0.50, 0.70) far,
\* [0.70, ..) veryFar; 0.05 is close.
C16_Buckets ==
    (Styled /\ arcDistance.v >= 0) =>
        /\ arcCategory \in Categories
        /\ arcCategory = "veryClose" <=> Within(0, 50)
        /\ arcCategory = "close" <=> Within(50, 100)
        /\ arcCategory = "slightlyClose" <=> Within(100, 300)
        /\ arcCategory = "slightlyFar" <=> Within(300, 500)
        /\ arcCategory = "far" <=> Within(500, 700)
        /\ arcCategory = "veryFar" <=> ~LessThan(ToDouble(arcDistance), Decimal(700, 1000))
        /\ arcDistance.v = 50 => arcCategory = "close"

\* An arc of distance 0.05 has been categorised.
C16_Witness ==
    /\ arcDistance = Num(50)
    /\ arcCategory = "close"

-----------------------------------------------------------------------------
\* the color's channels are r, g, b
HasRgb(color, r, g, b) == color.r = r /\ color.g = g /\ color.b = b

\* opacity arguments the color is computed again with
OtherOpacities == {Integer(1), NaN}

\* C17: with t = clamp(2d, 0, 1), the color at t = 0, 0.25, 0.5, 0.75, 1 is
\* (59,130,246), (34,197,94), (74,222,128), (250,204,21), (239,68,68); every
\* d >= 0.5 gives (239,68,68) and every d <= 0 gives (59,130,246); the
\* opacity argument changes no channel and is passed through.
C17_PaletteAnchors ==
    Styled =>
        /\ arcDistance.v <= 0 => HasRgb(arcColor, 59, 130, 246)
        /\ arcDistance.v = 125 => HasRgb(arcColor, 34, 197, 94)
        /\ arcDistance.v = 250 => HasRgb(arcColor, 74, 222, 128)
        /\ arcDistance.v = 375 => HasRgb(arcColor, 250, 204, 21)
        /\ arcDistance.v >= 500 => HasRgb(arcColor, 239, 68, 68)
        /\ arcColor.a = arcOpacity
        /\ \A opacity \in OtherOpacities :
              LET other == getDistanceColor(arcDistance, opacity)
              IN HasRgb(other, arcColor.r, arcColor.g, arcColor.b) /\ other.a = opacity

\* An arc of distance 0.375 (t = 0.75) has been colored.
C17_Witness ==
    /\ arcDistance = Num(375)
    /\ Times(ToDouble(arcDistance), Integer(2)) = Decimal(75, 100)
    /\ HasRgb(arcColor, 250, 204, 21)

-----------------------------------------------------------------------------
\* C18: opacity(d) = max(0.2, 0.8 - 1.2 d): opacity(0) = 0.8, opacity(0.5) is
\* exactly 0.2, it is 0.2 for every d >= 0.5, it does not increase with d and
\* it is never below 0.2.
C18_Opacity ==
    Styled =>
        /\ arcDistance.v = 0 => arcOpacity = Decimal(8, 10)
        /\ arcDistance.v = 500 => arcOpacity = Decimal(2, 10)
        /\ arcDistance.v >= 500 => arcOpacity = Decimal(2, 10)
        /\ ~LessThan(arcOpacity, getDistanceOpacity(Num(arcDistance.v + 1)))
        /\ ~LessThan(arcOpacity, Decimal(2, 10))

-----------------------------------------------------------------------------
\* the details popup is open
PopupOpen == Truthy(popupLanguage)

\* the rate the table holds for the language under the fixed key
RateOf(lang) ==
    IF verbObjKey \notin DOMAIN headDirectionRates THEN Absent
    ELSE IF lang \notin DOMAIN headDirectionRates[verbObjKey] THEN Absent
    ELSE headDirectionRates[verbObjKey][lang]

\* C19: the word-order summary reads the rate under "VERBAL,NOMINAL,CORE_ARG":
\* Head-Initial when the rate is above 0.7, Head-Final when it is below 0.3,
\* Mixed otherwise (0.7 and 0.3 themselves are Mixed), Unknown when the rate
\* is null, the language has no entry or the key is missing.
C19_WordOrderSummary ==
    PopupOpen =>
        LET rate == RateOf(popupLanguage)
            summary == getWordOrderTendency(popupLanguage, headDirectionRates).tendency
        IN /\ verbObjKey = "VERBAL,NOMINAL,CORE_ARG"
           /\ summary = "Unknown" <=> rate \in {Null, Absent}
           /\ summary = "Head-Initial" <=> (IsNumber(rate) /\ rate.v > 700)
           /\ summary = "Head-Final" <=> (IsNumber(rate) /\ rate.v < 300)
           /\ summary = "Mixed" <=> (rate = NaN \/ (IsNumber(rate) /\ 300 <= rate.v /\ rate.v <= 700))

\* The popup of a language whose rate is exactly 0.7 is open next to one
\* whose rate is 0.701.
C19_Witness ==
    /\ popupLanguage = "English"
    /\ RateOf("English") = Num(700)
    /\ RateOf("Finnish") = Num(701)
    /\ getWordOrderTendency("English", headDirectionRates).tendency = "Mixed"
    /\ getWordOrderTendency("Finnish", headDirectionRates).tendency = "Head-Initial"

-----------------------------------------------------------------------------
\* |rate of lang - rate of target| in doubles
Closeness(lang, target) ==
    MathAbs(Minus(ToDouble(RateOf(lang)), ToDouble(RateOf(target))))

\* lang is a primary node other than the target whose rate is a number that
\* differs from the target's by less than 0.15
Qualifies(lang, target) ==
    /\ lang # target
    /\ \E i \in 1..Len(allNodes) : allNodes[i].name = lang /\ allNodes[i].isPrimary
    /\ IsNumber(RateOf(lang))
    /\ IsNumber(RateOf(target))
    /\ LessThan(Closeness(lang, target), Decimal(15, 100))

\* C20: the similar-language lookup returns at most 3 languages, each a
\* primary node other than the target with a rate that differs from the
\* target's by less than 0.15, in order of non-decreasing difference, and no
\* qualifying language left out is closer than one returned; it returns
\* nothing when the target's rate is null or absent.
C20_SimilarLanguages ==
    PopupOpen =>
        LET target == popupLanguage
            similar == getSimilarLanguages(target, headDirectionRates)
            returned == {similar[i] : i \in 1..Len(similar)}
            names == {allNodes[i].name : i \in 1..Len(allNodes)}
        IN /\ Len(similar) <= 3
           /\ Cardinality(returned) = Len(similar)
           /\ \A lang \in returned : Qualifies(lang, target)
           /\ \A i, j \in 1..Len(similar) :
                 i < j => ~LessThan(Closeness(similar[j], target), Closeness(similar[i], target))
           /\ \A lang \in names \ returned :
                 Qualifies(lang, target) =>
                    /\ Len(similar) = 3
                    /\ \A other \in returned :
                          ~LessThan(Closeness(lang, target), Closeness(other, target))
           /\ RateOf(target) \in {Null, Absent} => similar = <<>>

\* Four languages qualify for the open popup and the three closest are
\* returned: Finnish, at 0.95 against 0.8, is left out.
C20_Witness ==
    /\ popupLanguage = "English"
    /\ RateOf("English") = Num(800)
    /\ RateOf("Finnish") = Num(950)
    /\ Qualifies("Finnish", "English")
    /\ getSimilarLanguages("English", headDirectionRates) = <<"French", "German", "Hindi">>

-----------------------------------------------------------------------------
\* the radius the globe draws point i with
RadiusOf(i) == pointRadius(pointsData[i], selectedNodeCode)

\* point i is the point of the selected node
IsSelectedPoint(i) == pointsData[i].code = selectedNodeCode

\* C21: for every selection there is exactly one point per node of the
\* table, in its order; the selected node's point is green and no radius is
\* larger than its; every other primary is blue and larger than every other
\* secondary, which is gray; at most one point is green.
C21_Points ==
    /\ Len(pointsData) = Len(allNodes)
    /\ \A i \in DOMAIN pointsData :
          /\ pointsData[i].code = allNodes[i].code
          /\ IF IsSelectedPoint(i)
             THEN /\ pointsData[i].color = "#22c55e"
                  /\ \A j \in DOMAIN pointsData :
                        j # i => RadiusOf(j) < RadiusOf(i)
             ELSE IF allNodes[i].isPrimary
             THEN /\ pointsData[i].color = "#60a5fa"
                  /\ \A j \in DOMAIN pointsData :
                        (~IsSelectedPoint(j) /\ ~allNodes[j].isPrimary)
                           => RadiusOf(j) < RadiusOf(i)
             ELSE pointsData[i].color = "#94a3b8"
    /\ Cardinality({i \in DOMAIN pointsData : pointsData[i].color = "#22c55e"}) <= 1

\* A secondary node is selected after the load: its point is the green one
\* and the largest.
C21_Witness ==
    /\ Built
    /\ selectedNodeCode = "en-us"
    /\ \E i \in DOMAIN pointsData :
          /\ pointsData[i].code = "en-us"
          /\ pointsData[i].color = "#22c55e"
          /\ ~pointsData[i].isPrimary
          /\ RadiusOf(i) = 700

-----------------------------------------------------------------------------
\* C22: a filter toggle for category k flips filter[k] and leaves the other
\* five booleans and the selection as they were; a step of the page that
\* changes the selection, the popup or the route (node click, clear, arc
\* click, show details, close popup) leaves the six booleans as they were;
\* toggling a category twice restores the filter.
C22_FilterToggle ==
    /\ [][ (location = "/" /\ distanceFilter' # distanceFilter) =>
              /\ selectedNodeCode' = selectedNodeCode
              /\ popupLanguage' = popupLanguage
              /\ location' = location
              /\ \E k \in Categories :
                    /\ distanceFilter'[k] = ~distanceFilter[k]
                    /\ \A other \in Categories \ {k} :
                          distanceFilter'[other] = distanceFilter[other]
          ]_vars
    /\ [](\A k \in Categories :
             LET once == ToggleFilter(distanceFilter, k)
             IN /\ once[k] = ~distanceFilter[k]
                /\ \A other \in Categories \ {k} : once[other] = distanceFilter[other]
                /\ ToggleFilter(once, k) = distanceFilter)

\* Two categories were toggled, then a node was clicked and its details
\* opened: the filter is still the toggled one.
C22_Witness ==
    /\ distanceFilter = [InitialFilter EXCEPT !.far = TRUE, !.close = FALSE]
    /\ selectedNodeCode = "ja"
    /\ popupLanguage = "Japanese"

-----------------------------------------------------------------------------
\* the codes at the other end of the similarity arcs that have code as an
\* endpoint
OtherEndpoints(code) ==
    {IF arcsData[k].node1Code = code THEN arcsData[k].node2Code ELSE arcsData[k].node1Code :
       k \in {i \in DOMAIN arcsData :
                 IsSimilarityArc(arcsData[i]) /\ HasEndpoint(arcsData[i], code)}}

\* C26: with node X selected, the nodes listed in the ranking are the other
\* endpoints of the similarity arcs emitted for X, and each listed node's
\* distance is the distance of the arc between X and that node, for every
\* matrix.
C26_RankingMatchesArcs ==
    (Built /\ Truthy(selectedNodeCode)) =>
        \A r \in Rankings :
            /\ {r[k].code : k \in DOMAIN r} = OtherEndpoints(selectedNodeCode)
            /\ \A k \in DOMAIN r :
                  \A a \in SimilarityArcsBetween(IndexOfCode(selectedNodeCode),
                                                 IndexOfCode(r[k].code)) :
                      arcsData[a].distance = r[k].distance

-----------------------------------------------------------------------------
\* positions of the arcs between nodes i and j, of either kind
ArcsBetween(i, j) == {k \in DOMAIN arcsData : Joins(arcsData[k], i, j)}

\* C27: for every matrix, filter and selection the arc list holds at most
\* one arc per unordered pair of nodes: a pair with a same-language arc has
\* no similarity arc, no pair has two similarity arcs, and no arc joins a
\* node to itself.
C27_OneArcPerPair ==
    /\ \A p \in UnorderedPairs :
          /\ SameArcsBetween(p[1], p[2]) # {} => SimilarityArcsBetween(p[1], p[2]) = {}
          /\ Cardinality(SimilarityArcsBetween(p[1], p[2])) <= 1
          /\ Cardinality(ArcsBetween(p[1], p[2])) <= 1
    /\ \A k \in DOMAIN arcsData : arcsData[k].node1Code # arcsData[k].node2Code

\* The matrix holds English at distance 0 from itself, the veryClose box is
\* on and nothing is selected: en and en-us are joined by their
\* same-language arc only, en and pt by one similarity arc.
C27_Witness ==
    /\ Built
    /\ ~Truthy(selectedNodeCode)
    /\ distanceFilter["veryClose"]
    /\ HasDistance("English", "English") /\ Entry("English", "English") = Num(0)
    /\ Cardinality(SameArcsBetween(1, 4)) = 1 /\ SimilarityArcsBetween(1, 4) = {}
    /\ Cardinality(ArcsBetween(1, 3)) = 1 /\ SimilarityArcsBetween(1, 3) # {}

-----------------------------------------------------------------------------
\* C28: after any sequence of node clicks, clears, show-details and closes,
\* whenever the details popup is open a node is selected and the popup's
\* language is the display name of the selected node.
C28_PopupFollowsSelection ==
    Truthy(popupLanguage) =>
        /\ Truthy(selectedNodeCode)
        /\ FindByCode(selectedNodeCode) # <<>>
        /\ popupLanguage = FindByCode(selectedNodeCode)[1].name

-----------------------------------------------------------------------------
\* a loadLanguage call for the code has returned without the language being
\* stored: a fetch threw, or neither language file was OK
LoadFailed(code) == fetched[code] > inFlight[code] /\ code \notin languageDataCache

\* C23: a language whose load has failed, by a throw or by responses that
\* were not OK, is skipped afterwards: a loadLanguage call for it would
\* return before its fetch, and no step issues a fetch for it.
C23_FailedSkipped ==
    /\ [](\A code \in LoaderCodes : LoadFailed(code) => ~StartsFetch(code))
    /\ [][\A code \in LoaderCodes : LoadFailed(code) => fetched'[code] = fetched[code]]_vars

\* the languages the selectors hold
SelectedCodes == {selectedLang1, selectedLang2} \ {""}

\* the load of the code has finished: the language is stored, or every call
\* that fetched for it has returned
LoadFinished(code) ==
    isLanguageLoaded(code) \/ (fetched[code] > 0 /\ inFlight[code] = 0)

\* C24: once the load of each selected language has finished, loaded or
\* failed in any way, no step issues a fetch while the selection stays as
\* it is.
C24_NoRefetch ==
    [][ (/\ selectedLang1' = selectedLang1
         /\ selectedLang2' = selectedLang2
         /\ \A code \in SelectedCodes : LoadFinished(code))
        => fetched' = fetched ]_vars

\* C25: at no time are two loads of the same code in flight, and no step
\* issues a fetch for a code that has a load in flight.
C25_OneLoadPerCode ==
    /\ [](\A code \in LoaderCodes : inFlight[code] <= 1)
    /\ [][\A code \in LoaderCodes : inFlight[code] > 0 => fetched'[code] = fetched[code]]_vars

-----------------------------------------------------------------------------
\* C30: after any sequence of zoom-in, zoom-out and reset from 1.0 the zoom
\* is within [0.5, 2.0]; a change whose sum is above 2.0 gives 2.0, one
\* whose sum is below 0.5 gives 0.5, any other gives the sum; a reset gives
\* 1.0.
C30_ZoomRange ==
    /\ [](~LessThan(zoom, MinZoom) /\ ~LessThan(MaxZoom, zoom))
    /\ [][ /\ \A delta \in ZoomDeltas :
                 handleZoomChange(delta) =>
                     \E sum \in {Plus(zoom, delta)} :
                         zoom' = IF LessThan(MaxZoom, sum) THEN MaxZoom
                                 ELSE IF LessThan(sum, MinZoom) THEN MinZoom
                                 ELSE sum
           /\ handleZoomReset => zoom' = Integer(1) ]_vars

\* The zoom buttons are shown, the zoom has come down to 0.5 and another
\* zoom-out would take the sum below the range.
C30_Witness ==
    /\ ZoomControlsShown
    /\ zoom = MinZoom
    /\ \E delta \in ZoomDeltas : LessThan(Plus(zoom, delta), MinZoom)

-----------------------------------------------------------------------------
\* the rows HeadDirectionPanel lists in this state: none unless both
\* language names are set
PanelRows ==
    IF Truthy(FullName(selectedLang1)) /\ Truthy(FullName(selectedLang2))
    THEN HeadDirectionPairs(headDirectionRates, FullName(selectedLang1),
                            FullName(selectedLang2))
    ELSE <<>>

\* the table holds a rate, not null, for the language under the key
HasRate(key, langName) ==
    /\ key \in DOMAIN headDirectionRates
    /\ langName \in DOMAIN headDirectionRates[key]
    /\ IsNumber(headDirectionRates[key][langName])

\* |a - b| of two rates, as a double
AbsoluteDifference(a, b) ==
    MathAbs(Minus(Decimal(a.v, 1000), Decimal(b.v, 1000)))

\* C29: the head-direction table lists only keys for which both compared
\* languages have a rate, in order of non-increasing absolute rate
\* difference, and never more than 15 rows.
C29_PanelRows ==
    LET rows == PanelRows
    IN /\ \A k \in DOMAIN rows :
             /\ HasRate(rows[k].key, FullName(selectedLang1))
             /\ HasRate(rows[k].key, FullName(selectedLang2))
       /\ \A k \in 1..(Len(rows) - 1) :
             (/\ IsNumber(rows[k].lang1Rate) /\ IsNumber(rows[k].lang2Rate)
              /\ IsNumber(rows[k + 1].lang1Rate) /\ IsNumber(rows[k + 1].lang2Rate))
             => ~LessThan(AbsoluteDifference(rows[k].lang1Rate, rows[k].lang2Rate),
                          AbsoluteDifference(rows[k + 1].lang1Rate, rows[k + 1].lang2Rate))
       /\ Len(rows) <= 15

====
